---- MODULE Spec2Model ----
(***************************************************************************)
(* A model of genno's Computer (src/genno/core/computer.py): the Graph of  *)
(* keys and tasks, add_single / add / add_queue, check_keys and get.       *)
(***************************************************************************)
EXTENDS Integers, Sequences, FiniteSets, TLC

(* ------------------------------------------------------------------ *)
(* Bounds of the model                                                 *)
(* ------------------------------------------------------------------ *)

\* Number of top-level add calls explored by Spec.
MaxAdds == 2
MaxGets == 2
MaxOps == 2
MaxNest == 2

(* ------------------------------------------------------------------ *)
(* Keys and Python objects                                             *)
(* ------------------------------------------------------------------ *)

Range(s) == {s[i] : i \in DOMAIN s}

\* A Key (or key-like string): name, ordered dimensions, tag.
Key(name, dims, tag) == [name |-> name, dims |-> dims, tag |-> tag]

\* The string form of dimensions: their names in the order given, joined by "-".
\* A string is the sequence of its parts, separators included.
JoinDims(dims) ==
  LET F[i \in 0..Len(dims)] ==
        IF i = 0 THEN <<>>
        ELSE IF i = 1 THEN <<dims[1]>>
        ELSE F[i - 1] \o <<"-", dims[i]>>
  IN F[Len(dims)]

\* str(k): "foo", "foo:a-b-c", "foo:a-b:tag", "foo::tag"
Str(k) ==
  <<k.name>>
    \o (IF k.dims = <<>> /\ k.tag = "" THEN <<>> ELSE <<":">> \o JoinDims(k.dims))
    \o (IF k.tag = "" THEN <<>> ELSE <<":", k.tag>>)

\* Key.from_str_or_key(s) for a valid expression s: the name, what stands
\* between the first and the second ":" split at "-", and the tag after the
\* second ":".
from_str(s) ==
  LET colons == {i \in DOMAIN s : s[i] = ":"}
      c1 == IF colons = {} THEN Len(s) + 1
            ELSE CHOOSE i \in colons : \A j \in colons : i <= j
      later == colons \ {c1}
      c2 == IF later = {} THEN Len(s) + 1
            ELSE CHOOSE i \in later : \A j \in later : i <= j
  IN Key(s[1],
         SelectSeq(SubSeq(s, c1 + 1, c2 - 1), LAMBDA t : t # "-"),
         IF c2 < Len(s) THEN s[c2 + 1] ELSE "")

\* (keys are compared with their dimensions in order)
KeyEq_ordered(a, b) == a = b

\* Key.__eq__(a, b), b a Key: name, set of dimensions and tag agree
KeyEq(a, b) == a.name = b.name /\ Range(a.dims) = Range(b.dims) /\ a.tag = b.tag

\* Key.__eq__(a, s), s a str: s is read as a Key first
KeyEqStr(a, s) == KeyEq(a, from_str(s))

\* hash(s) of a str: equal for equal strings, taken as different otherwise
HashStr(s) == s

\* Key.__hash__
Hash(k) == HashStr(Str(k))

\* Python None, where a method returns "a key or None".
None == Key("", <<>>, "")

\* A Python object as it appears in a computation: py is its type.
\*   "key"      a Key or str (name, dims, tag)
\*   "callable" a function (name)
\*   "obj"      any other literal (name is its value; "None" is None)
\*   "tuple" / "list"  a container of objects (items)
Obj(py, name, dims, tag, items) ==
  [py |-> py, name |-> name, dims |-> dims, tag |-> tag, items |-> items]

KeyRef(k) == Obj("key", k.name, k.dims, k.tag, <<>>)
Callable(f) == Obj("callable", f, <<>>, "", <<>>)
Literal(v) == Obj("obj", v, <<>>, "", <<>>)
PyNone == Literal("None")
Tuple(items) == Obj("tuple", "", <<>>, "", items)
List(items) == Obj("list", "", <<>>, "", items)
KeyOf(o) == Key(o.name, o.dims, o.tag)

\* isinstance(e, (Key, str))
IsKeyLike(e) == e.py = "key"

(* ------------------------------------------------------------------ *)
(* Graph: a mapping Key -> task with two indexes                       *)
(* ------------------------------------------------------------------ *)

EmptyMap == [x \in {} |-> None]

\* The key of the unsorted-key index: (name, frozenset(dims), tag).
IndexKey(k) == <<k.name, Range(k.dims), k.tag>>

\* Graph(config=dict()): the only entry is "config", an empty dict.
ConfigKey == Key("config", <<>>, "")
ConfigDict == Obj("dict", "config", <<>>, "", <<>>)

\* (the full-key index holds the key most recently inserted for the name)
GraphSetItem_latest(g, k, v) ==
  [tasks |-> [x \in DOMAIN g.tasks \cup {k} |-> IF x = k THEN v ELSE g.tasks[x]],
   unsorted |-> [x \in DOMAIN g.unsorted \cup {IndexKey(k)} |->
                   IF x = IndexKey(k) THEN k ELSE g.unsorted[x]],
   full |-> [n \in DOMAIN g.full \cup {k.name} |-> IF n = k.name THEN k ELSE g.full[n]]]

GraphSetItem(g, k, v) ==
  [tasks |-> [x \in DOMAIN g.tasks \cup {k} |-> IF x = k THEN v ELSE g.tasks[x]],
   unsorted |-> [x \in DOMAIN g.unsorted \cup {IndexKey(k)} |->
                   IF x = IndexKey(k) THEN k ELSE g.unsorted[x]],
   full |-> [n \in DOMAIN g.full \cup {k.name} |->
               IF n = k.name
                 THEN IF n \notin DOMAIN g.full \/ Len(k.dims) >= Len(g.full[n].dims)
                        THEN k ELSE g.full[n]
                 ELSE g.full[n]]]

NewGraph ==
  GraphSetItem([tasks |-> EmptyMap, unsorted |-> EmptyMap, full |-> EmptyMap],
               ConfigKey, ConfigDict)

\* key in graph
GraphContains(g, k) == k \in DOMAIN g.tasks

\* Graph.unsorted_key: the stored key with the same name, set of dims and tag.
unsorted_key(g, k) ==
  IF IndexKey(k) \in DOMAIN g.unsorted THEN g.unsorted[IndexKey(k)] ELSE None

\* Graph.full_key: the full-dimensionality key stored for the name of k.
full_key(g, k) == IF k.name \in DOMAIN g.full THEN g.full[k.name] ELSE None

(* ------------------------------------------------------------------ *)
(* Computer.check_keys, _rewrite_comp, add_single                       *)
(* ------------------------------------------------------------------ *)

\* Exceptions: type and arguments (keys)
Exc(type, keys) == [type |-> type, keys |-> keys]
NoExc == Exc("", <<>>)

\* itertools.compress(s, flags)
compress(s, flags) ==
  LET F[i \in 0..Len(s)] ==
        IF i = 0 THEN <<>>
        ELSE IF flags[i] THEN Append(F[i - 1], s[i]) ELSE F[i - 1]
  IN F[Len(s)]

\* Python's `a or b` on "a key or None"
KeyOr(a, b) == IF a # None THEN a ELSE b

\* _check(value) inside check_keys; usePredicate: the predicate of
\* _rewrite_comp, lambda e: not isinstance(e, (Key, str)), else always-false.
check(g, value, usePredicate) ==
  LET found(r) == IF r = None THEN PyNone ELSE KeyRef(r)
  IN IF usePredicate /\ ~IsKeyLike(value) THEN value
     ELSE found(KeyOr(unsorted_key(g, KeyOf(value)), full_key(g, KeyOf(value))))

\* (reporting only the first key that is missing)
check_keys_first(g, keys, usePredicate) ==
  LET finish(res) ==
        IF \E i \in DOMAIN res : res[i] = PyNone
          THEN [exc |-> Exc("MissingKeyError",
                            SubSeq(SelectSeq(compress(keys, [i \in DOMAIN res |-> res[i] = PyNone]),
                                             LAMBDA e : e # PyNone), 1, 1)),
                result |-> <<>>]
          ELSE [exc |-> NoExc, result |-> res]
  IN finish([i \in DOMAIN keys |-> check(g, keys[i], usePredicate)])

\* check_keys(*keys, predicate, action="raise"): the result list, or the
\* MissingKeyError raised with
\* filter(None, compress(keys, map(lambda r: r is None, result))).
check_keys(g, keys, usePredicate) ==
  LET finish(res) ==
        IF \E i \in DOMAIN res : res[i] = PyNone
          THEN [exc |-> Exc("MissingKeyError",
                            SelectSeq(compress(keys, [i \in DOMAIN res |-> res[i] = PyNone]),
                                      LAMBDA e : e # PyNone)),
                result |-> <<>>]
          ELSE [exc |-> NoExc, result |-> res]
  IN finish([i \in DOMAIN keys |-> check(g, keys[i], usePredicate)])

\* _rewrite_comp(computation)
rewrite_comp(g, computation) ==
  LET wrap(c) == IF c.exc # NoExc THEN [exc |-> c.exc, result |-> computation]
                 ELSE [exc |-> NoExc,
                       result |-> Obj(computation.py, "", <<>>, "", c.result)]
  IN IF computation.py \notin {"list", "tuple"}
       THEN [exc |-> NoExc, result |-> computation]
       ELSE wrap(check_keys(g, computation.items, TRUE))

\* (storing without a look at the key or at the computation)
add_single_unchecked(g, key, computation, strict) ==
  LET store(unpacked) ==
        [exc |-> NoExc, key |-> key, graph |-> GraphSetItem(g, key, unpacked)]
  IN store(IF Len(computation) = 1 /\ computation[1].py # "callable"
             THEN computation[1] ELSE Tuple(computation))

\* (replacing an existing key also when strict)
add_single_replace(g, key, computation, strict) ==
  LET store(rw) ==
        IF rw.exc # NoExc THEN [exc |-> rw.exc, key |-> None, graph |-> g]
        ELSE [exc |-> NoExc, key |-> key, graph |-> GraphSetItem(g, key, rw.result)]
      checked(unpacked) ==
        store(IF strict THEN rewrite_comp(g, unpacked)
              ELSE [exc |-> NoExc, result |-> unpacked])
  IN checked(IF Len(computation) = 1 /\ computation[1].py # "callable"
               THEN computation[1] ELSE Tuple(computation))

\* add_single(key, *computation, strict): computation is the varargs tuple.
\* Gives the exception raised (or NoExc), the returned key and the graph after.
add_single(g, key, computation, strict) ==
  LET store(rw) ==
        IF rw.exc # NoExc THEN [exc |-> rw.exc, key |-> None, graph |-> g]
        ELSE [exc |-> NoExc, key |-> key, graph |-> GraphSetItem(g, key, rw.result)]
      checked(unpacked) ==
        IF strict /\ GraphContains(g, key)
          THEN [exc |-> Exc("KeyExistsError", <<KeyRef(key)>>), key |-> None, graph |-> g]
        ELSE store(IF strict THEN rewrite_comp(g, unpacked)
                   ELSE [exc |-> NoExc, result |-> unpacked])
  IN checked(IF Len(computation) = 1 /\ computation[1].py # "callable"
               THEN computation[1] ELSE Tuple(computation))

(* ------------------------------------------------------------------ *)
(* Keyword arguments of add()                                           *)
(* ------------------------------------------------------------------ *)

\* strict, and sums; fail is left at its default.
Kw(strict) == [strict |-> strict, sums |-> FALSE]
NoKw == Kw(FALSE)
KwSums(strict) == [strict |-> strict, sums |-> TRUE]

(* ------------------------------------------------------------------ *)
(* add_queue                                                            *)
(* ------------------------------------------------------------------ *)

\* logging levels
DEBUG == 10
ERROR == 40
CRITICAL == 50

\* The `fail` argument: a str, an int level, or None.
FailStr(s) == [t |-> "str", s |-> s, n |-> 0]
FailInt(n) == [t |-> "int", s |-> "", n |-> n]
FailNone == [t |-> "none", s |-> "", n |-> 0]

\* getattr(logging, fail.upper(), logging.ERROR)
LoggingLevel(s) ==
  IF s = "debug" THEN DEBUG ELSE IF s = "critical" THEN CRITICAL ELSE ERROR

\* (with fail=None the leftmost element of the stack, the default)
EffectiveFail_default(failArg, stack) ==
  IF failArg.t = "str" THEN LoggingLevel(failArg.s)
  ELSE IF failArg.t = "none" THEN stack[1]
  ELSE failArg.n

\* The effective failure action of add_queue (log level).
EffectiveFail(failArg, stack) ==
  IF failArg.t = "str" THEN LoggingLevel(failArg.s)
  ELSE IF failArg.t = "none" THEN stack[Len(stack)]
  ELSE failArg.n

\* A queue element as written by the caller: positional arguments only, or
\* the pair (args, kwargs).
Value(pair, args, kw) == [pair |-> pair, args |-> args, kw |-> kw]

\* Item(value): count starts at 1; kwargs only from the pair form.
Item(id, value) ==
  [id |-> id, count |-> 1, args |-> value.args,
   kwargs |-> IF value.pair THEN value.kw ELSE NoKw]

\* Exception classes derived from KeyError.
KeyErrorSubclasses == {"MissingKeyError", "KeyExistsError"}

\* (a handler `except Exception`)
IsKeyError_any(e) == TRUE

\* `except KeyError` catches exc
IsKeyError(e) == e.type = "KeyError" \/ e.type \in KeyErrorSubclasses

\* (retrying once less, and once more, than max_tries allows)
WillRetry_early(item, maxTries) == item.count + 1 < maxTries
WillRetry_late(item, maxTries) == item.count <= maxTries

\* `if item.count < max_tries`: the item is re-appended
WillRetry(item, maxTries) == item.count < maxTries

\* (raising only above ERROR)
WillRaise_above(failLevel) == failLevel > ERROR

\* `if fail >= logging.ERROR: raise`
WillRaise(failLevel) == failLevel >= ERROR

(* ------------------------------------------------------------------ *)
(* Computer.get_comp, full_key, add                                     *)
(* ------------------------------------------------------------------ *)

QuotedLiteral(x) == Obj("literal", "", <<>>, "", <<x>>)

\* dask.core.istask(o): a tuple whose first element is callable
istask(o) ==
  o.py = "tuple" /\ Len(o.items) > 0 /\ o.items[1].py \in {"callable", "literal"}

\* dask.core.quote(o)
quote(o) == IF istask(o) \/ o.py \in {"list", "dict"} THEN Tuple(<<QuotedLiteral(o)>>) ELSE o

\* self.graph["config"][0].data
unquote(o) == o.items[1].items[1]

\* How many times quote was applied to o without an unquote.
RECURSIVE quote_depth(_)
quote_depth(o) ==
  IF o.py = "tuple" /\ Len(o.items) = 1 /\ o.items[1].py = "literal"
    THEN 1 + quote_depth(unquote(o))
    ELSE 0

\* Names of the callables found in Computer.modules.
OperatorNames == {"op", "aggregate", "sum"}

\* Names in dir(Computer) that add() dispatches to (other than "add").
MethodNames == {"full_key", "aggregate"}

\* Names in dir(Computer) of attributes that are no methods.
AttributeNames == {"graph", "modules"}

\* dir(self), as far as add() is concerned
DirComputer == MethodNames \cup AttributeNames \cup {"add"}

\* A str without dimensions or tag, as getattr() needs for a name.
IsBareStr(o) == o.py = "key" /\ o.dims = <<>> /\ o.tag = ""

\* The modules: genno.computations, and two others which may be required.
\* What each defines: "op" is in computations and in compat_a, "plot" in
\* compat_a and compat_b.
computations == "computations"
ModuleNames == {computations, "compat_a", "compat_b"}
Defines(mod) ==
  IF mod = computations THEN OperatorNames
  ELSE IF mod = "compat_a" THEN {"op", "plot"}
  ELSE IF mod = "compat_b" THEN {"plot"}
  ELSE {}

\* self.modules = [computations]
DefaultModules == <<computations>>

\* getattr(module, name) for a name the module defines: the callable of that
\* module (the tag tells the callables of other modules from computations').
ModuleAttr(mod, name) ==
  Obj("callable", name, <<>>, IF mod = computations THEN "" ELSE mod, <<>>)

\* (modules at the start of the list take precedence)
get_comp_first(mods, name) ==
  LET has == {i \in DOMAIN mods : name.py = "key" /\ name.name \in Defines(mods[i])}
  IN IF has = {} THEN PyNone
     ELSE ModuleAttr(mods[CHOOSE i \in has : \A j \in has : i <= j], name.name)

\* The loop of get_comp over reversed(mods): getattr raises TypeError for a
\* name that is not a str, AttributeError for a str the module does not define.
get_comp_in(mods, name) ==
  LET F[i \in 0..Len(mods)] ==
        IF i = 0 THEN PyNone
        ELSE IF name.py # "key" THEN PyNone
        ELSE IF IsBareStr(name) /\ name.name \in Defines(mods[i])
          THEN ModuleAttr(mods[i], name.name)
        ELSE F[i - 1]
  IN F[Len(mods)]

\* Computer.get_comp(name), with the modules of a new Computer: the callable,
\* or None.
get_comp(name) == get_comp_in(DefaultModules, name)

\* What require_compat(pkg) is given: a module object, the dotted name of a
\* module, or the name of a package of genno.compat, whose HAS_ flag tells
\* whether the third-party package is there. mod = "" is a name that cannot
\* be imported.
Pkg(kind, mod, has) == [kind |-> kind, mod |-> mod, has |-> has]

\* Computer.require_compat(pkg): the exception raised and the modules after.
require_compat(mods, pkg) ==
  IF pkg.mod \notin ModuleNames \/ (pkg.kind = "compat" /\ ~pkg.has)
    THEN [exc |-> Exc("ModuleNotFoundError", <<>>), modules |-> mods]
  ELSE IF pkg.mod \in Range(mods) THEN [exc |-> NoExc, modules |-> mods]
  ELSE [exc |-> NoExc, modules |-> Append(mods, pkg.mod)]

\* What a call gives: the exception raised or NoExc, the key(s) returned, the
\* graph and the stack _queue_fail after.
Outcome(e, keys, g, qf) == [exc |-> e, keys |-> keys, graph |-> g, queue_fail |-> qf]

\* Computer.full_key(name_or_key): KeyError if the graph has no such name.
Computer_full_key(g, k, qf) ==
  LET give(r) == IF r = None THEN Outcome(Exc("KeyError", <<KeyRef(k)>>), <<>>, g, qf)
                 ELSE Outcome(NoExc, <<r>>, g, qf)
  IN give(full_key(g, k))

\* getattr(self, "full_key")(*args, **kwargs): full_key takes one argument.
method_full_key(g, args, kw, qf) ==
  IF Len(args) # 1 \/ kw.strict \/ kw.sums \/ ~IsKeyLike(args[1])
    THEN Outcome(Exc("TypeError", <<>>), <<>>, g, qf)
  ELSE Computer_full_key(g, KeyOf(args[1]), qf)

\* isinstance(result, Key): add_single returns Key.bare_name(key) or Key(key),
\* a str for a name without dimensions and tag.
IsKeyInstance(k) == k.dims # <<>> \/ k.tag # ""

\* The dimensions of dims picked by the bits of mask, in the order of dims.
SubDims(dims, mask) ==
  LET F[i \in 0..Len(dims)] ==
        IF i = 0 THEN <<>>
        ELSE IF (mask \div (2 ^ (i - 1))) % 2 = 1 THEN Append(F[i - 1], dims[i])
        ELSE F[i - 1]
  IN F[Len(dims)]

\* The task of a partial sum: sum k over the dimensions dropped.
SumTask(k, dropped) ==
  Tuple(<<Callable("sum"), KeyRef(k), PyNone, Obj("obj", "dims", dropped, "", <<>>)>>)

\* Key.iter_sums(): for every strict subset of the dimensions of k, the key
\* with those dimensions and the task that sums k over the others.
iter_sums(k) ==
  [m \in 1..(2 ^ Len(k.dims) - 1) |->
     Value(FALSE,
           <<KeyRef(Key(k.name, SubDims(k.dims, m - 1), k.tag)),
             SumTask(k, SubDims(k.dims, 2 ^ Len(k.dims) - m))>>,
           NoKw)]

RECURSIVE add(_, _, _, _, _)

\* (the stack is popped only when the item was added)
queue_fail_pop_else(qf, e) == IF e = NoExc THEN SubSeq(qf, 1, Len(qf) - 1) ELSE qf

\* `finally: self._queue_fail.pop()`, whatever add() raised
queue_fail_pop(qf, e) == SubSeq(qf, 1, Len(qf) - 1)

\* The while loop of add_queue, run to its end: the keys added, or the
\* exception raised, the graph and the stack after. Around the attempt of
\* every item the failure action is pushed on the stack and popped from it.
RECURSIVE add_queue_loop(_, _, _, _, _, _)
add_queue_loop(g, dq, maxTries, failLevel, addedKeys, qf) ==
  IF dq = <<>> THEN Outcome(NoExc, addedKeys, g, qf)
  ELSE LET handle(item, r, after) ==
             IF r.exc = NoExc
               THEN add_queue_loop(r.graph, Tail(dq), maxTries, failLevel,
                                   addedKeys \o r.keys, after)
             ELSE IF ~IsKeyError(r.exc) THEN Outcome(r.exc, <<>>, r.graph, after)
             ELSE IF WillRetry(item, maxTries)
               THEN add_queue_loop(r.graph, Append(Tail(dq), [item EXCEPT !.count = @ + 1]),
                                   maxTries, failLevel, addedKeys, after)
             ELSE IF WillRaise(failLevel) THEN Outcome(r.exc, <<>>, r.graph, after)
             ELSE add_queue_loop(r.graph, Tail(dq), maxTries, failLevel, addedKeys, after)
           attempt(item, r) == handle(item, r, queue_fail_pop(r.queue_fail, r.exc))
       IN attempt(Head(dq), add(g, Head(dq).args[1], Tail(Head(dq).args), Head(dq).kwargs,
                                Append(qf, failLevel)))

\* (the partial sums are not added)
add_sums_none(g, key, qf) == Outcome(NoExc, <<key>>, g, qf)

\* `return (result,) + self.add_queue(result.iter_sums(), fail=fail)`, with
\* fail = "fail" and max_tries = 1, the defaults.
add_sums(g, key, qf) ==
  LET join(r) == IF r.exc # NoExc THEN r
                 ELSE Outcome(NoExc, <<key>> \o r.keys, r.graph, r.queue_fail)
  IN join(add_queue_loop(g, [i \in DOMAIN iter_sums(key) |-> Item(i, iter_sums(key)[i])],
                         1, LoggingLevel("fail"), <<>>, qf))

\* Key.add_tag(tag), Key.drop(*dims)
add_tag(k, tag) == Key(k.name, k.dims, IF k.tag = "" THEN tag ELSE k.tag \o "+" \o tag)
drop(k, ds) == Key(k.name, SelectSeq(k.dims, LAMBDA d : d \notin ds), k.tag)

\* The names in dims_or_groups, a str or a sequence of str.
DimsOf(o) == IF o.py = "key" THEN <<o.name>> ELSE [i \in DOMAIN o.items |-> o.items[i].name]

\* partial(sum, dimensions=dims): what partial_split makes of the operator
\* "sum" and the keyword argument of Computer.aggregate.
SumOver(ds) == Obj("callable", "sum", ds, "", <<>>)

\* Computer.aggregate(qty, tag, dims_or_groups, ...), called by add() with
\* *args and **kwargs: strict is no parameter of it.
Computer_aggregate(g, args, kw, qf) ==
  IF Len(args) < 3 \/ Len(args) > 7 \/ kw.strict
    THEN Outcome(Exc("TypeError", <<>>), <<>>, g, qf)
  ELSE IF args[3].py = "dict"
    THEN IF Len(args[3].items) > 1
           THEN Outcome(Exc("NotImplementedError", <<>>), <<>>, g, qf)
           ELSE add(g, KeyRef(add_tag(KeyOf(args[1]), args[2].name)),
                    <<Callable("aggregate"), args[1], quote(args[3]), Literal("True")>>,
                    [strict |-> TRUE, sums |-> kw.sums], qf)
  ELSE add(g, KeyRef(add_tag(drop(KeyOf(args[1]), Range(DimsOf(args[3]))), args[2].name)),
           <<SumOver(DimsOf(args[3])), args[1], PyNone>>,
           [strict |-> TRUE, sums |-> kw.sums], qf)

\* The items of a queue given to add() as a list: each is a tuple of the
\* arguments of add(), or a pair of such a tuple and a dict of keyword
\* arguments (of which strict and sums are told apart).
HasName(d, n) == \E i \in DOMAIN d.items : d.items[i].name = n
QueueValue(o) ==
  IF Len(o.items) = 2 /\ o.items[1].py = "tuple" /\ o.items[2].py = "dict"
    THEN Value(TRUE, o.items[1].items,
               [strict |-> HasName(o.items[2], "strict"), sums |-> HasName(o.items[2], "sums")])
    ELSE Value(FALSE, o.items, NoKw)

\* max_tries given as a positional argument
IntOf(o) == IF o.name = "3" THEN 3 ELSE IF o.name = "2" THEN 2 ELSE 1

\* Computer.add_queue(queue, *args, **kwargs) as add() calls it: max_tries and
\* fail come from args, if at all; strict and sums are no parameters of it.
\* With fail=None the failure action is the rightmost of the stack.
add_queue(g, queue, args, kw, qf) ==
  IF Len(args) > 2 \/ kw.strict \/ kw.sums
    THEN Outcome(Exc("TypeError", <<>>), <<>>, g, qf)
  ELSE add_queue_loop(g, [i \in DOMAIN queue.items |-> Item(i, QueueValue(queue.items[i]))],
                      IF Len(args) >= 1 THEN IntOf(args[1]) ELSE 1,
                      EffectiveFail(IF Len(args) = 2 THEN FailStr(args[2].name) ELSE FailNone,
                                    qf),
                      <<>>, qf)

\* "Other methods": where add() hands `data` to, by its type and value.
dispatch(data) ==
  IF data.py \in {"list", "tuple"} THEN "add_queue"
  ELSE IF IsBareStr(data) /\ data.name \in DirComputer /\ data.name # "add" THEN "method"
  ELSE "computation"

\* (`data` does not take the place of args[0])
join_data_not(data, args) == args

\* `args = (data,) + args[1:]`: a callable was located in args[0]
join_data(data, args) == <<data>> \o Tail(args)

\* Computer.add(data, *args, **kwargs) from "Possibly identify a named or
\* direct callable" on: `data` names a computation, or is the key to add.
add_named(g, data, args, kw, qf) ==
  LET \* from `if func:` on, with the callable located (or None)
      single(func, args2) ==
        LET give(r) ==
              IF r.exc = NoExc /\ kw.sums /\ IsKeyInstance(r.key)
                THEN add_sums(r.graph, r.key, qf)
                ELSE Outcome(r.exc, IF r.exc = NoExc THEN <<r.key>> ELSE <<>>, r.graph, qf)
        IN IF func # PyNone /\ Len(args2) = 0 THEN Outcome(Exc("IndexError", <<>>), <<>>, g, qf)
           ELSE IF func # PyNone
             THEN give(add_single(g, KeyOf(args2[1]), <<func>> \o Tail(args2), kw.strict))
             ELSE give(add_single(g, KeyOf(data), args, kw.strict))
      \* the `else` branch: look for a callable in args[0]
      further(first) ==
        IF first # PyNone THEN single(first, join_data(data, args))
        ELSE single(PyNone, args)
      named(func) ==
        IF func # PyNone THEN single(func, args)
        ELSE IF ~IsKeyLike(data) \/ Len(args) = 0
          THEN Outcome(Exc("TypeError", <<>>), <<>>, g, qf)
        ELSE further(IF get_comp(args[1]) # PyNone THEN get_comp(args[1])
                     ELSE IF args[1].py = "callable" THEN args[1] ELSE PyNone)
  IN named(get_comp(data))

\* Computer.add(data, *args, **kwargs)
add(g, data, args, kw, qf) ==
  IF dispatch(data) = "add_queue" THEN add_queue(g, data, args, kw, qf)
  ELSE IF dispatch(data) = "method"
    THEN \* getattr(self, data)(*args, **kwargs); an attribute that is no
         \* method cannot be called
         IF data.name = "aggregate" THEN Computer_aggregate(g, args, kw, qf)
         ELSE IF data.name = "full_key" THEN method_full_key(g, args, kw, qf)
         ELSE Outcome(Exc("TypeError", <<>>), <<>>, g, qf)
  ELSE add_named(g, data, args, kw, qf)

(* ------------------------------------------------------------------ *)
(* Computer.get: dask.core.quote, dask.optimization.cull, dask.get     *)
(* ------------------------------------------------------------------ *)

\* dask.core.literal(x), a callable that gives x back
\* dask.core.keys_in_tasks(keys, [o]): the elements of `keys` found in o,
\* looking into the arguments of tasks and into lists.
RECURSIVE keys_in_tasks(_, _)
keys_in_tasks(keys, o) ==
  IF istask(o) THEN UNION {keys_in_tasks(keys, o.items[i]) : i \in 2..Len(o.items)}
  ELSE IF o.py = "list" THEN UNION {keys_in_tasks(keys, o.items[i]) : i \in DOMAIN o.items}
  ELSE IF o.py = "key" /\ KeyOf(o) \in keys THEN {KeyOf(o)}
  ELSE {}

\* dask.core.get_dependencies(dsk, k)
get_dependencies(dsk, k) == keys_in_tasks(DOMAIN dsk, dsk[k])

\* The loop of cull: `work` are the keys to visit, `out` the keys visited.
RECURSIVE cull_loop(_, _, _, _)
cull_loop(dsk, work, seen, out) ==
  IF work = {} THEN out
  ELSE LET new == UNION {get_dependencies(dsk, k) : k \in work} \ seen
       IN cull_loop(dsk, new, seen \cup new, out \cup work)

\* cull raises KeyError for a key that is not in dsk: get_dependencies reads
\* dsk[key].
cull_raises(dsk, key) == key \notin DOMAIN dsk

\* (no culling: the whole graph is handed to dask.get)
cull_all(dsk, key) == dsk

\* dask.optimization.cull(dsk, key): the tasks that `key` depends on
cull(dsk, key) == [k \in cull_loop(dsk, {key}, {}, {}) |-> dsk[k]]

\* The value that a call of the callable f on args gives.
ValueOf(f, args) == Obj("value", f, <<>>, "", args)

\* (keys are not looked up in the cache)
execute_task_asis(o, cache) == o

\* dask.local._execute_task(o, cache)
RECURSIVE execute_task(_, _)
execute_task(o, cache) ==
  IF istask(o)
    THEN IF o.items[1].py = "literal" THEN o.items[1].items[1]
         ELSE ValueOf(o.items[1].name,
                      [i \in 1..(Len(o.items) - 1) |-> execute_task(o.items[i + 1], cache)])
  ELSE IF o.py = "list"
    THEN List([i \in DOMAIN o.items |-> execute_task(o.items[i], cache)])
  ELSE IF o.py = "key" /\ KeyOf(o) \in DOMAIN cache THEN cache[KeyOf(o)]
  ELSE o

\* (every key not yet computed counts as ready)
ready_any(d, c) == DOMAIN d \ DOMAIN c

\* dask.local: the keys that can run now, those not yet computed whose
\* dependencies are all in the cache
ready(d, c) == {k \in DOMAIN d \ DOMAIN c : get_dependencies(d, k) \subseteq DOMAIN c}

\* (a graph with a cycle is taken as it is)
OnCycle_none(d, k) == FALSE

\* dask.order: k is on a cycle of d when k is among what its dependencies need
OnCycle(d, k) ==
  k \in cull_loop(d, get_dependencies(d, k), get_dependencies(d, k), {})

\* The class of the exception that a call of the callable f raises, "" if none:
\* "fail" is func of test_computationerror; "interrupt" is a callable during
\* which the user interrupts the interpreter.
RaisedBy(f) ==
  IF f = "fail" THEN "TypeError" ELSE IF f = "interrupt" THEN "KeyboardInterrupt" ELSE ""

\* Whether executing the task o calls, itself or in a nested task, a callable
\* which raises, and the class of exception that escapes.
RECURSIVE task_raises(_)
task_raises(o) ==
  IF istask(o) /\ o.items[1].py = "callable"
    THEN LET inner == {task_raises(o.items[i]) : i \in 2..Len(o.items)} \ {""}
         IN IF inner # {} THEN CHOOSE t \in inner : TRUE ELSE RaisedBy(o.items[1].name)
  ELSE IF o.py = "list"
    THEN LET inner == {task_raises(o.items[i]) : i \in DOMAIN o.items} \ {""}
         IN IF inner # {} THEN CHOOSE t \in inner : TRUE ELSE ""
  ELSE ""

\* An exception raised while the task of `key` runs; its traceback leads to key.
TaskExc(type, key) == [type |-> type, keys |-> <<>>, key |-> key]

\* The exception dask raises for a graph with a cycle through k
CycleExc(k) == [type |-> "RuntimeError", keys |-> <<KeyRef(k)>>, key |-> None]

\* ComputationError(exc)
ComputationError(e) == [type |-> "ComputationError", keys |-> <<>>, cause |-> e]

\* Classes derived from BaseException but not from Exception
BaseExceptionOnly == {"KeyboardInterrupt", "SystemExit", "GeneratorExit"}

\* (nothing is wrapped)
get_except_bare(e) == e

\* `except Exception as exc: raise ComputationError(exc) from None`
get_except(e) == IF e.type \notin BaseExceptionOnly THEN ComputationError(e) ELSE e

\* (the cache of the previous get is kept)
new_cache_kept(c) == c

\* dask.get starts with an empty cache
new_cache(c) == EmptyMap

(* ------------------------------------------------------------------ *)
(* Quantity: units and binary operations (genno/core/base.py)           *)
(* ------------------------------------------------------------------ *)

\* Magnitudes are rational numbers n/d in lowest terms, d > 0.
RECURSIVE Gcd(_, _)
Gcd(a, b) == IF b = 0 THEN a ELSE Gcd(b, a % b)
Abs(n) == IF n < 0 THEN 0 - n ELSE n
Rat(n, d) ==
  LET g == Gcd(Abs(n), Abs(d))
      sgn == IF d < 0 THEN 0 - 1 ELSE 1
  IN [n |-> (sgn * n) \div g, d |-> (sgn * d) \div g]
One == Rat(1, 1)
RAdd(a, b) == Rat(a.n * b.d + b.n * a.d, a.d * b.d)
RSub(a, b) == Rat(a.n * b.d - b.n * a.d, a.d * b.d)
RMul(a, b) == Rat(a.n * b.n, a.d * b.d)
RDiv(a, b) == Rat(a.n * b.d, a.d * b.n)
\* a ** b for a whole exponent b >= 0
RPow(a, b) == Rat(a.n ^ b.n, a.d ^ b.n)

\* Units: the exponents of kg, tonne and km; all zero is dimensionless.
UnitNames == {"kg", "tonne", "km"}
dimensionless == [u \in UnitNames |-> 0]
\* pint's Unit(name)
Unit(name) == [u \in UnitNames |-> IF u = name THEN 1 ELSE 0]
\* operator.mul and operator.truediv on units
UnitMul(u, v) == [x \in UnitNames |-> u[x] + v[x]]
UnitDiv(u, v) == [x \in UnitNames |-> u[x] - v[x]]
\* kg and tonne are masses, km is a length.
Dimensionality(u) == [mass |-> u["kg"] + u["tonne"], length |-> u["km"]]

\* (the factor from `to` to `from`)
to_magnitude_back(from, to) ==
  LET d == to["tonne"] - from["tonne"]
  IN IF d >= 0 THEN Rat(1000 ^ d, 1) ELSE Rat(1, 1000 ^ (0 - d))

\* pint.Quantity(1.0, from).to(to).magnitude, for units of one dimensionality:
\* a tonne is 1000 kg.
to_magnitude(from, to) ==
  LET d == from["tonne"] - to["tonne"]
  IN IF d >= 0 THEN Rat(1000 ^ d, 1) ELSE Rat(1, 1000 ^ (0 - d))

\* attrs: the entry "_unit", if there is one, and the other entries.
Attrs(has, unit, rest) == [has_unit |-> has, unit |-> unit, rest |-> rest]
NoAttrs == Attrs(FALSE, dimensionless, {})

\* A Quantity: one magnitude for all its entries, dims with their coords,
\* name ("" for None) and attrs.
CoordsOf(dims) == [i \in DOMAIN dims |-> <<dims[i] \o "1", dims[i] \o "2">>]
Quantity(values, dims, name, attrs) ==
  [values |-> values, dims |-> dims, coords |-> CoordsOf(dims), name |-> name,
   attrs |-> attrs]

\* UnitsMixIn.units, the value: self.attrs.setdefault("_unit", dimensionless)
units(q) == IF q.attrs.has_unit THEN q.attrs.unit ELSE dimensionless

\* UnitsMixIn.units, the effect on self: setdefault stores the default
units_read(q) == [q EXCEPT !.attrs = Attrs(TRUE, units(q), @.rest)]

\* UnitsMixIn.units, the setter
units_set(q, value) == [q EXCEPT !.attrs = Attrs(TRUE, value, @.rest)]

\* _binary_op_units(name, other): the result units and the factor, or the
\* exception of pint; self and other as the reads of .units leave them.
binary_op_units(name, self, other) ==
  IF name = "pow"
    THEN [exc |-> NoExc, units |-> units(self), factor |-> One,
          self |-> units_read(self), other |-> other]
  ELSE IF name \in {"add", "sub"}
    THEN IF Dimensionality(units(other)) = Dimensionality(units(self))
           THEN [exc |-> NoExc, units |-> units(self),
                 factor |-> to_magnitude(units(other), units(self)),
                 self |-> units_read(self), other |-> units_read(other)]
           ELSE [exc |-> Exc("DimensionalityError", <<>>), units |-> units(self),
                 factor |-> One,
                 self |-> units_read(self), other |-> units_read(other)]
  ELSE [exc |-> NoExc,
        units |-> IF name = "mul" THEN UnitMul(units(self), units(other))
                  ELSE UnitDiv(units(self), units(other)),
        factor |-> One,
        self |-> units_read(self), other |-> units_read(other)]

\* The union of the dimensions of two operands
UnionDims(a, b) == a \o SelectSeq(b, LAMBDA d : d \notin Range(a))

\* _perform_binary_op(name, left, right, factor) of the Quantity class: the
\* operation on the magnitudes, over the union of the dimensions. The
\* result is a new object without a name, with the attrs of left.
perform_binary_op(name, left, right) ==
  Quantity(IF name = "add" THEN RAdd(left.values, right.values)
           ELSE IF name = "sub" THEN RSub(left.values, right.values)
           ELSE IF name = "mul" THEN RMul(left.values, right.values)
           ELSE IF name = "truediv" THEN RDiv(left.values, right.values)
           ELSE RPow(left.values, right.values),
           UnionDims(left.dims, right.dims), "", left.attrs)

\* (the name of the target is left as it is)
keep_units_only(self, target, u) == units_set(target, u)

\* _keep(target, units=u): name = None and attrs = None, so the name of self
\* and the units are set on target, and no other attrs.
keep(self, target, u) == [units_set(target, u) EXCEPT !.name = self.name]

\* (a number becomes a Quantity in kg)
wrap_kg(number) == Quantity(number, <<>>, "", Attrs(TRUE, Unit("kg"), {}))

\* type(obj)(other) for a Number: a Quantity without dims, name and attrs
wrap(number) == Quantity(number, <<>>, "", NoAttrs)

\* `other` scaled: super(type(obj), other).__mul__(factor), a new object
scaled(other, factor) == [other EXCEPT !.values = RMul(@, factor)]

\* The operand `other` of a binary operation: a Quantity, a number or
\* something else.
Operand(kind, q) == [kind |-> kind, q |-> q]

\* The names of BinaryOpsMixIn.
BinaryOps == {"add", "mul", "pow", "radd", "rmul", "rtruediv", "sub", "truediv"}
IsSwap(rname) == rname \in {"radd", "rmul", "rtruediv"}
OpName(rname) ==
  IF rname = "radd" THEN "add" ELSE IF rname = "rmul" THEN "mul"
  ELSE IF rname = "rtruediv" THEN "truediv" ELSE rname

\* make_binary_op(rname).method(obj, other): the exception raised or the
\* result, and obj and other as they are afterwards.
method(rname, obj, other) ==
  LET finish(u, wrapped) ==
        LET right == IF u.factor # One THEN scaled(u.other, u.factor) ELSE u.other
            target == IF IsSwap(rname)
                        THEN perform_binary_op(OpName(rname), right, u.self)
                        ELSE perform_binary_op(OpName(rname), u.self, right)
        IN [exc |-> u.exc,
            done |-> u.exc = NoExc,
            result |-> IF u.exc # NoExc THEN wrap(One)
                       ELSE keep(u.self, target, IF wrapped THEN units(u.self) ELSE u.units),
            obj |-> u.self,
            other |-> IF wrapped THEN other ELSE Operand("quantity", u.other)]
  IN IF other.kind = "number"
       THEN finish(binary_op_units(OpName(rname), obj, wrap(other.q.values)), TRUE)
     ELSE IF other.kind = "quantity"
       THEN finish(binary_op_units(OpName(rname), obj, other.q), FALSE)
     ELSE [exc |-> Exc("TypeError", <<>>), done |-> FALSE, result |-> wrap(One),
           obj |-> obj, other |-> other]

(* ------------------------------------------------------------------ *)
(* State                                                                *)
(* ------------------------------------------------------------------ *)

VARIABLES
  graph,       \* Computer.graph
  queue_fail,  \* Computer._queue_fail, a stack of log levels
  pc,          \* "idle", "queue" (inside add_queue), "returned", "raised"
  exc,         \* the exception the last call raised to its caller, or NoExc
  result,      \* the value (sequence of keys) the last call returned
  queue,       \* add_queue: the deque _queue of Items
  max_tries,   \* add_queue: argument
  fail,        \* add_queue: the effective failure action
  added,       \* add_queue: keys added so far
  values,      \* history: the queue as passed to add_queue
  tries,       \* history: attempts made per item
  fate,        \* history: state of each item
  last,        \* history: the last attempt of add_queue
  logged,      \* history: messages logged by _log, as <<item, level>>
  prev,        \* history: the graph before the last call
  lastAdd,     \* history: the arguments of the last add call
  nAdds,       \* number of top-level add calls made
  target,      \* get: the key, as check_keys gave it; full_key: its argument
  dsk,         \* get: the culled graph handed to dask.get
  cache,       \* get: dask's cache of results, by key
  invoked,     \* history: how often get called the callable of each key's task
  task_exc,    \* history: the exception that a task raised during get, or NoExc
  gets,        \* history: the finished get calls, as [key, invoked, exc]
  keys,        \* two Keys, as constructed
  cmp,         \* what comparing and hashing the two Keys gave
  modules,     \* Computer.modules
  comp,        \* the last call of get_comp: [name, got, mods]
  required,    \* history: the last call of require_compat: [pkg, before]
  forms,       \* history: what either calling form of the last add gives
  call,        \* history: the last add(data, *args, **kwargs) and what it gave
  qa,          \* a Quantity
  qb,          \* another Quantity
  arith,       \* history: the last binary operation, its operands and result
  nOps,        \* history: how many binary operations were made
  default_key, \* Computer.default_key
  lastGet      \* history: the last call of get and the graph before it

qvars == <<queue, max_tries, fail, added, values, tries, fate, last, logged>>
gvars == <<target, dsk, cache, invoked, task_exc, gets>>
kvars == <<keys, cmp>>
xvars == <<modules, comp, required, forms, call>>
avars == <<qa, qb, arith, nOps>>
dvars == <<default_key, lastGet>>
vars == <<graph, queue_fail, pc, exc, result, queue, max_tries, fail, added,
          values, tries, fate, last, logged, prev, lastAdd, nAdds, target, dsk,
          cache, invoked, task_exc, gets, keys, cmp, modules, comp,
          required, forms, call, qa, qb, arith, nOps, default_key, lastGet>>

NoGet == [made |-> FALSE, key |-> None, default |-> None, before |-> NewGraph]
NoLast == [id |-> 0, exc |-> NoExc, requeued |-> FALSE, count |-> 0]
NoAdd == [made |-> FALSE, key |-> None, args |-> <<>>, strict |-> FALSE, sums |-> FALSE]

NoForms == [made |-> FALSE]
NoCall == [made |-> FALSE]
NoArith == [made |-> FALSE]
NoComp == [name |-> PyNone, got |-> PyNone, mods |-> <<>>]
NoRequired == [pkg |-> Pkg("", "", FALSE), before |-> <<>>]
NoKeys == [a |-> None, b |-> None]
NoCmp == [done |-> FALSE]

\* The state after Computer(), with graph g, two Keys ks and two Quantities.
InitState(g, ks, a, b) ==
  /\ keys = ks
  /\ qa = a
  /\ qb = b
  /\ arith = NoArith
  /\ nOps = 0
  /\ modules = DefaultModules
  /\ comp = NoComp
  /\ required = NoRequired
  /\ forms = NoForms
  /\ call = NoCall
  /\ cmp = NoCmp
  /\ graph = g
  /\ queue_fail = <<ERROR>>
  /\ pc = "idle"
  /\ exc = NoExc
  /\ result = <<>>
  /\ queue = <<>>
  /\ max_tries = 1
  /\ fail = ERROR
  /\ added = <<>>
  /\ values = <<>>
  /\ tries = <<>>
  /\ fate = <<>>
  /\ last = NoLast
  /\ logged = <<>>
  /\ prev = g
  /\ lastAdd = NoAdd
  /\ nAdds = 0
  /\ target = None
  /\ dsk = EmptyMap
  /\ cache = EmptyMap
  /\ invoked = EmptyMap
  /\ task_exc = NoExc
  /\ gets = <<>>
  /\ default_key = None
  /\ lastGet = NoGet

\* The state after Computer(), with graph g, and two Keys ks.
InitComputer(g, ks) == InitState(g, ks, wrap(One), wrap(One))

\* The state after Computer(), with graph g.
InitWith(g) == InitComputer(g, NoKeys)

(* ------------------------------------------------------------------ *)
(* Actions: add                                                         *)
(* ------------------------------------------------------------------ *)

\* c.add(key, *args, strict=strict) called by the user.
AddCall(key, args, strict) ==
  /\ pc = "idle"
  /\ nAdds < MaxAdds
  /\ \E r \in {add(graph, KeyRef(key), args, Kw(strict), queue_fail)} :
        /\ graph' = r.graph
        /\ exc' = r.exc
        /\ result' = r.keys
  /\ prev' = graph
  /\ lastAdd' = [made |-> TRUE, key |-> key, args |-> args, strict |-> strict,
                 sums |-> FALSE]
  /\ nAdds' = nAdds + 1
  /\ UNCHANGED <<queue_fail, pc>>
  /\ UNCHANGED qvars
  /\ UNCHANGED gvars
  /\ UNCHANGED kvars
  /\ UNCHANGED avars
  /\ UNCHANGED dvars
  /\ UNCHANGED xvars

\* c.add(key, *args, strict=strict, sums=True) called by the user.
AddSumsCall(key, args, strict) ==
  /\ pc = "idle"
  /\ nAdds < MaxAdds
  /\ \E r \in {add(graph, KeyRef(key), args, KwSums(strict), queue_fail)} :
        /\ graph' = r.graph
        /\ exc' = r.exc
        /\ result' = r.keys
  /\ prev' = graph
  /\ lastAdd' = [made |-> TRUE, key |-> key, args |-> args, strict |-> strict,
                 sums |-> TRUE]
  /\ nAdds' = nAdds + 1
  /\ UNCHANGED <<queue_fail, pc>>
  /\ UNCHANGED qvars
  /\ UNCHANGED gvars
  /\ UNCHANGED kvars
  /\ UNCHANGED avars
  /\ UNCHANGED dvars
  /\ UNCHANGED xvars

\* full_key(name_or_key)
FullKeyCall(key) ==
  /\ pc = "idle"
  /\ \E r \in {Computer_full_key(graph, key, queue_fail)} :
        /\ exc' = r.exc
        /\ result' = r.keys
  /\ target' = key
  /\ pc' = "asked"
  /\ prev' = graph
  /\ UNCHANGED <<graph, queue_fail, lastAdd, nAdds, dsk, cache, invoked, task_exc, gets>>
  /\ UNCHANGED qvars
  /\ UNCHANGED kvars
  /\ UNCHANGED avars
  /\ UNCHANGED dvars
  /\ UNCHANGED xvars

(* ------------------------------------------------------------------ *)
(* Actions: add_queue                                                   *)
(* ------------------------------------------------------------------ *)

\* add_queue(queue, max_tries, fail) up to the while loop.
AddQueueCall(vals, maxTries, failArg) ==
  /\ pc = "idle"
  /\ pc' = "queue"
  /\ fail' = EffectiveFail(failArg, queue_fail)
  /\ max_tries' = maxTries
  /\ added' = <<>>
  /\ queue' = [i \in DOMAIN vals |-> Item(i, vals[i])]
  /\ values' = vals
  /\ tries' = [i \in DOMAIN vals |-> 0]
  /\ fate' = [i \in DOMAIN vals |-> "new"]
  /\ last' = NoLast
  /\ logged' = <<>>
  /\ prev' = graph
  /\ exc' = NoExc
  /\ result' = <<>>
  /\ UNCHANGED <<graph, queue_fail, lastAdd, nAdds>>
  /\ UNCHANGED gvars
  /\ UNCHANGED kvars
  /\ UNCHANGED avars
  /\ UNCHANGED dvars
  /\ UNCHANGED xvars

\* One iteration of the while loop: popleft, push the failure action, try to
\* add, handle KeyError, and pop the failure action in `finally`.
QueueAttempt ==
  /\ pc = "queue"
  /\ queue # <<>>
  /\ \E item \in {Head(queue)} :
     \E r \in {add(graph, item.args[1], Tail(item.args), item.kwargs,
                    Append(queue_fail, fail))} :
     LET caught == r.exc # NoExc /\ IsKeyError(r.exc)
         retry == caught /\ WillRetry(item, max_tries)
         final == caught /\ ~retry
         raised == (r.exc # NoExc /\ ~caught) \/ (final /\ WillRaise(fail))
     IN /\ graph' = r.graph
        /\ queue' = IF retry
                      THEN Append(Tail(queue), [item EXCEPT !.count = item.count + 1])
                      ELSE Tail(queue)
        /\ added' = IF r.exc = NoExc THEN added \o r.keys ELSE added
        /\ logged' = IF final THEN Append(logged, <<item.id, fail>>) ELSE logged
        /\ pc' = IF raised THEN "raised" ELSE "queue"
        /\ exc' = IF raised THEN r.exc ELSE exc
        /\ queue_fail' = queue_fail_pop(r.queue_fail, r.exc)
        /\ tries' = [tries EXCEPT ![item.id] = @ + 1]
        /\ fate' = [fate EXCEPT ![item.id] =
                      IF r.exc = NoExc THEN "added"
                      ELSE IF retry THEN "trying"
                      ELSE IF raised THEN "raised"
                      ELSE "discarded"]
        /\ last' = [id |-> item.id, exc |-> r.exc, requeued |-> retry,
                    count |-> item.count]
  /\ UNCHANGED <<result, max_tries, fail, values, prev, lastAdd, nAdds>>
  /\ UNCHANGED gvars
  /\ UNCHANGED kvars
  /\ UNCHANGED avars
  /\ UNCHANGED dvars
  /\ UNCHANGED xvars

\* The loop ends: return tuple(added).
QueueReturn ==
  /\ pc = "queue"
  /\ queue = <<>>
  /\ pc' = "returned"
  /\ result' = added
  /\ UNCHANGED <<graph, queue_fail, exc, queue, max_tries, fail, added, values,
                 tries, fate, last, logged, prev, lastAdd, nAdds>>
  /\ UNCHANGED gvars
  /\ UNCHANGED kvars
  /\ UNCHANGED avars
  /\ UNCHANGED dvars
  /\ UNCHANGED xvars

(* ------------------------------------------------------------------ *)
(* Actions: get                                                         *)
(* ------------------------------------------------------------------ *)

\* get(key) up to the call of dask.get: check_keys, quote "config", cull.
\* When check_keys raises, get raises and nothing else happens: a Computer
\* that has not computed yet stays "idle", one that has is "failed".
\* get raises exc before it calls dask.get, with graph g: nothing after the
\* raise runs.
GetRaisesEarly(e, g) ==
  /\ exc' = e
  /\ pc' = IF pc = "idle" THEN "idle" ELSE "failed"
  /\ target' = None
  /\ dsk' = EmptyMap
  /\ cache' = EmptyMap
  /\ invoked' = EmptyMap
  /\ graph' = g

GetCall(key) ==
  /\ pc \in {"idle", "got", "failed"}
  /\ Len(gets) < MaxGets
  /\ quote_depth(graph.tasks[ConfigKey]) < MaxNest
  /\ IF key = None /\ default_key = None
       THEN GetRaisesEarly(Exc("ValueError", <<>>), graph)
       ELSE \E ck \in {IF key = None
                         THEN [exc |-> NoExc, result |-> <<KeyRef(default_key)>>]
                         ELSE check_keys(graph, <<KeyRef(key)>>, FALSE)} :
       IF ck.exc # NoExc
         THEN GetRaisesEarly(ck.exc, graph)
         ELSE \E g \in {GraphSetItem(graph, ConfigKey,
                                     quote(IF GraphContains(graph, ConfigKey)
                                             THEN graph.tasks[ConfigKey]
                                             ELSE ConfigDict))} :
              IF cull_raises(g.tasks, KeyOf(ck.result[1]))
                THEN GetRaisesEarly(Exc("KeyError", <<KeyOf(ck.result[1])>>), g)
                ELSE /\ graph' = g
                     /\ target' = KeyOf(ck.result[1])
                     /\ dsk' = cull(g.tasks, KeyOf(ck.result[1]))
                     /\ cache' = new_cache(cache)
                     /\ invoked' = EmptyMap
                     /\ pc' = "get"
                     /\ exc' = NoExc
  /\ result' = <<>>
  /\ prev' = graph
  /\ task_exc' = NoExc
  /\ lastGet' = [made |-> TRUE, key |-> key, default |-> default_key,
                 before |-> graph]
  /\ UNCHANGED <<queue_fail, lastAdd, nAdds, gets, default_key>>
  /\ UNCHANGED qvars
  /\ UNCHANGED kvars
  /\ UNCHANGED avars
  /\ UNCHANGED xvars

\* c.default_key = k
SetDefaultKey(k) ==
  /\ pc \in {"idle", "got", "failed"}
  /\ default_key' = k
  /\ UNCHANGED <<graph, queue_fail, pc, exc, result, prev, lastAdd, nAdds, lastGet>>
  /\ UNCHANGED qvars
  /\ UNCHANGED gvars
  /\ UNCHANGED kvars
  /\ UNCHANGED avars
  /\ UNCHANGED xvars

\* The count of calls after one more call of the callable of k's task
Invoke(k) ==
  IF istask(dsk[k]) /\ dsk[k].items[1].py = "callable"
    THEN [x \in DOMAIN invoked \cup {k} |->
            IF x = k THEN (IF k \in DOMAIN invoked THEN invoked[k] ELSE 0) + 1
            ELSE invoked[x]]
    ELSE invoked

\* dask.get finds a cycle in dsk before it runs any task; get wraps the
\* exception, and `finally` unwraps "config".
GetCycle ==
  /\ pc = "get"
  /\ cache = EmptyMap
  /\ \E k \in DOMAIN dsk :
       /\ OnCycle(dsk, k)
       /\ exc' = get_except(CycleExc(k))
  /\ graph' = GraphSetItem(graph, ConfigKey, unquote(graph.tasks[ConfigKey]))
  /\ pc' = "failed"
  /\ gets' = Append(gets, [key |-> target, invoked |-> invoked, exc |-> exc'])
  /\ UNCHANGED <<queue_fail, result, prev, lastAdd, nAdds, target, dsk, cache,
                 invoked, task_exc>>
  /\ UNCHANGED qvars
  /\ UNCHANGED kvars
  /\ UNCHANGED avars
  /\ UNCHANGED dvars
  /\ UNCHANGED xvars
  /\ UNCHANGED dvars

\* dask.get computes one key of dsk whose dependencies are all in the cache.
GetStep ==
  /\ pc = "get"
  /\ \A j \in DOMAIN dsk : ~OnCycle(dsk, j)
  /\ \E k \in ready(dsk, cache) :
       /\ task_raises(dsk[k]) = ""
       /\ \E v \in {execute_task(dsk[k], cache)} :
            cache' = [x \in DOMAIN cache \cup {k} |-> IF x = k THEN v ELSE cache[x]]
       /\ invoked' = Invoke(k)
  /\ UNCHANGED <<graph, queue_fail, pc, exc, result, prev, lastAdd, nAdds, target,
                 dsk, task_exc, gets>>
  /\ UNCHANGED qvars
  /\ UNCHANGED kvars
  /\ UNCHANGED avars
  /\ UNCHANGED dvars
  /\ UNCHANGED xvars
  /\ UNCHANGED dvars

\* The task of a ready key raises: dask.get raises the same exception, get
\* wraps it when `except Exception` catches it, and `finally` unwraps "config".
GetRaise ==
  /\ pc = "get"
  /\ \A j \in DOMAIN dsk : ~OnCycle(dsk, j)
  /\ \E k \in ready(dsk, cache) :
       /\ task_raises(dsk[k]) # ""
       /\ task_exc' = TaskExc(task_raises(dsk[k]), k)
       /\ exc' = get_except(TaskExc(task_raises(dsk[k]), k))
       /\ invoked' = Invoke(k)
  /\ graph' = GraphSetItem(graph, ConfigKey, unquote(graph.tasks[ConfigKey]))
  /\ pc' = "failed"
  /\ gets' = Append(gets, [key |-> target, invoked |-> invoked', exc |-> exc'])
  /\ UNCHANGED <<queue_fail, result, prev, lastAdd, nAdds, target, dsk, cache>>
  /\ UNCHANGED qvars
  /\ UNCHANGED kvars
  /\ UNCHANGED avars
  /\ UNCHANGED dvars
  /\ UNCHANGED xvars
  /\ UNCHANGED dvars

\* dask.get returns the result for the key; `finally` unwraps "config".
GetReturn ==
  /\ pc = "get"
  /\ DOMAIN cache = DOMAIN dsk
  /\ result' = <<cache[target]>>
  /\ graph' = GraphSetItem(graph, ConfigKey, unquote(graph.tasks[ConfigKey]))
  /\ pc' = "got"
  /\ gets' = Append(gets, [key |-> target, invoked |-> invoked, exc |-> NoExc])
  /\ UNCHANGED <<queue_fail, exc, prev, lastAdd, nAdds, target, dsk, cache,
                 invoked, task_exc>>
  /\ UNCHANGED qvars
  /\ UNCHANGED kvars
  /\ UNCHANGED avars
  /\ UNCHANGED dvars
  /\ UNCHANGED xvars
  /\ UNCHANGED dvars

\* add(key, op, *inputs, **kw) or, deprecated, add(op, key, *inputs, **kw),
\* op being a name: the call made, with what the other form gives on the same
\* Computer.
AddForms(key, opname, inputs, strict, deprecated) ==
  /\ pc = "idle"
  /\ nAdds < MaxAdds
  /\ \E ra \in {add(graph, KeyRef(key), <<KeyRef(Key(opname, <<>>, ""))>> \o inputs, Kw(strict),
                    queue_fail)},
        rb \in {add(graph, KeyRef(Key(opname, <<>>, "")), <<KeyRef(key)>> \o inputs, Kw(strict),
                    queue_fail)} :
        /\ graph' = IF deprecated THEN rb.graph ELSE ra.graph
        /\ exc' = IF deprecated THEN rb.exc ELSE ra.exc
        /\ result' = IF deprecated THEN rb.keys ELSE ra.keys
        /\ forms' = [made |-> TRUE, key |-> key, op |-> opname, inputs |-> inputs,
                     strict |-> strict, a |-> ra, b |-> rb]
  /\ prev' = graph
  /\ lastAdd' = [made |-> TRUE,
                 key |-> IF deprecated THEN Key(opname, <<>>, "") ELSE key,
                 args |-> IF deprecated THEN <<KeyRef(key)>> \o inputs
                          ELSE <<KeyRef(Key(opname, <<>>, ""))>> \o inputs,
                 strict |-> strict, sums |-> FALSE]
  /\ nAdds' = nAdds + 1
  /\ UNCHANGED <<queue_fail, pc, modules, comp, required, call>>
  /\ UNCHANGED qvars
  /\ UNCHANGED gvars
  /\ UNCHANGED kvars
  /\ UNCHANGED avars
  /\ UNCHANGED dvars

\* add(data, *args, **kw) with any `data`: a sequence, a str or a Key.
AddData(data, args, kw) ==
  /\ pc = "idle"
  /\ nAdds < MaxAdds
  /\ \E r \in {add(graph, data, args, kw, queue_fail)} :
        /\ graph' = r.graph
        /\ exc' = r.exc
        /\ result' = r.keys
        /\ queue_fail' = r.queue_fail
        /\ call' = [made |-> TRUE, data |-> data, args |-> args, kw |-> kw, r |-> r,
                    before |-> graph, stack |-> queue_fail]
  /\ prev' = graph
  /\ nAdds' = nAdds + 1
  /\ UNCHANGED <<pc, lastAdd, modules, comp, required, forms>>
  /\ UNCHANGED qvars
  /\ UNCHANGED gvars
  /\ UNCHANGED kvars
  /\ UNCHANGED avars
  /\ UNCHANGED dvars

\* get_comp(name)
GetCompCall(name) ==
  /\ comp' = [name |-> name, got |-> get_comp_in(modules, name), mods |-> modules]
  /\ UNCHANGED <<graph, queue_fail, pc, exc, result, prev, lastAdd, nAdds, modules,
                 required, forms, call>>
  /\ UNCHANGED qvars
  /\ UNCHANGED gvars
  /\ UNCHANGED kvars
  /\ UNCHANGED avars
  /\ UNCHANGED dvars

\* require_compat(pkg)
RequireCompatCall(pkg) ==
  /\ \E r \in {require_compat(modules, pkg)} :
        /\ exc' = r.exc
        /\ modules' = r.modules
  /\ required' = [pkg |-> pkg, before |-> modules]
  /\ UNCHANGED <<graph, queue_fail, pc, result, prev, lastAdd, nAdds, comp, forms,
                 call>>
  /\ UNCHANGED qvars
  /\ UNCHANGED gvars
  /\ UNCHANGED kvars
  /\ UNCHANGED avars
  /\ UNCHANGED dvars

\* k1 == k2, k1 == str(k1), k1 == str(k2), hash(k1), hash(k2), hash(str(k1))
Compare ==
  /\ ~cmp.done
  /\ cmp' = [done |-> TRUE,
             eq |-> KeyEq(keys.a, keys.b),
             eq_own_str |-> KeyEqStr(keys.a, Str(keys.a)),
             eq_str |-> KeyEqStr(keys.a, Str(keys.b)),
             hash_a |-> Hash(keys.a),
             hash_b |-> Hash(keys.b),
             hash_str |-> HashStr(Str(keys.a))]
  /\ UNCHANGED <<graph, queue_fail, pc, exc, result, prev, lastAdd, nAdds, keys>>
  /\ UNCHANGED qvars
  /\ UNCHANGED gvars
  /\ UNCHANGED xvars
  /\ UNCHANGED avars
  /\ UNCHANGED dvars

\* obj <op> other, or other <op> obj for a reflected operation: obj is the
\* Quantity x ("a" or "b"), other the other Quantity, a number or a str.
BinaryOp(rname, x, other) ==
  /\ pc = "idle"
  /\ nOps < MaxOps
  /\ \E r \in {method(rname, IF x = "a" THEN qa ELSE qb,
                       IF other.kind = "quantity"
                         THEN Operand("quantity", IF x = "a" THEN qb ELSE qa)
                         ELSE other)} :
        /\ qa' = IF x = "a" THEN r.obj
                 ELSE IF other.kind = "quantity" THEN r.other.q ELSE qa
        /\ qb' = IF x = "b" THEN r.obj
                 ELSE IF other.kind = "quantity" THEN r.other.q ELSE qb
        /\ arith' = [made |-> TRUE, name |-> rname, x |-> x, kind |-> other.kind,
                     number |-> other.q.values,
                     obj |-> IF x = "a" THEN qa ELSE qb,
                     other |-> IF x = "a" THEN qb ELSE qa,
                     done |-> r.done, exc |-> r.exc, result |-> r.result]
  /\ nOps' = nOps + 1
  /\ UNCHANGED <<graph, queue_fail, pc, exc, result, prev, lastAdd, nAdds>>
  /\ UNCHANGED qvars
  /\ UNCHANGED gvars
  /\ UNCHANGED kvars
  /\ UNCHANGED xvars
  /\ UNCHANGED dvars

(* ------------------------------------------------------------------ *)
(* Inputs                                                               *)
(* ------------------------------------------------------------------ *)

Bare(name) == Key(name, <<>>, "")
kSource == Bare("source")
kA == Bare("A")
kB == Bare("B")
kC == Bare("C")
op == Callable("op")

\* Queue elements: (key, op, input) written positionally, or as the pair
\* ((key, op, input), dict(strict=True)).
Positional(key, input) == Value(FALSE, <<KeyRef(key), op, KeyRef(input)>>, NoKw)
Strict(key, input) == Value(TRUE, <<KeyRef(key), op, KeyRef(input)>>, Kw(TRUE))

vB == Strict(kB, kA)
vA == Strict(kA, kSource)
vC == Strict(kC, kB)
\* ("full_key", "A"): add() dispatches to Computer.full_key
vFullKey == Value(FALSE, <<KeyRef(Bare("full_key")), KeyRef(kA)>>, NoKw)
\* ("B",): add() raises TypeError, "At least 1 argument required"
vNoArgs == Value(FALSE, <<KeyRef(kB)>>, NoKw)

QueueValues ==
  {vB, vA, vC, vFullKey, vNoArgs, Positional(kB, kA), Positional(kA, kSource)}

\* Longest queue passed to add_queue.
MaxQueue == 3
\* Largest max_tries passed to add_queue.
MaxTries == 3

\* Sequences without repetition, of length at most n.
DistinctQueues(S, n) ==
  {q \in UNION {[1..m -> S] : m \in 0..n} : \A i, j \in DOMAIN q : i # j => q[i] # q[j]}

FailArgs == {FailStr("raise"), FailStr("debug"), FailStr("critical"), FailNone}

\* Keys with dimensions: q:x-y, the same with its dimensions in another
\* order, and the bare name.
qxy == Key("q", <<"x", "y">>, "")
qyx == Key("q", <<"y", "x">>, "")
q == Bare("q")

\* Computations, as the arguments of add() after the key: a literal, tasks,
\* aliases, a list of keys.
Computations ==
  { <<Literal("1.0")>>,
    <<op, KeyRef(kA)>>,
    <<op, KeyRef(qyx), KeyRef(kA)>>,
    <<op, KeyRef(q), PyNone>>,
    <<op, KeyRef(kA), KeyRef(kB)>>,
    <<KeyRef(kA)>>,
    <<KeyRef(qyx)>>,
    <<List(<<KeyRef(kA), KeyRef(qyx)>>)>> }

AddKeys == {kA, kB, qxy}

\* Inputs of add() before get(): data "d", tasks "A" and "X" on it, and what
\* may be added on top.
kD == Bare("d")
kX == Bare("X")
AddInput(key, args, strict) == [key |-> key, args |-> args, strict |-> strict]
GetInputs ==
  { AddInput(kB, <<op, KeyRef(kA)>>, FALSE),
    AddInput(kB, <<KeyRef(kA)>>, FALSE),
    AddInput(kB, <<op, KeyRef(ConfigKey)>>, FALSE),
    AddInput(kC, <<op, KeyRef(kB), KeyRef(kD)>>, FALSE),
    AddInput(kC, <<List(<<KeyRef(kA), KeyRef(kB)>>)>>, FALSE),
    AddInput(kC, <<op, List(<<KeyRef(kB), KeyRef(kX)>>)>>, FALSE),
    AddInput(kC, <<op, KeyRef(kB)>>, TRUE) }
GetKeys == {kD, kA, kX, kB, kC, ConfigKey}

\* Inputs of add() whose tasks raise during get(), or which close a cycle
\* between "A" and "B".
func == Callable("fail")
interrupt == Callable("interrupt")
FailInputs ==
  { AddInput(kB, <<func, KeyRef(kA)>>, FALSE),
    AddInput(kB, <<interrupt, KeyRef(kA)>>, FALSE),
    AddInput(kB, <<op, KeyRef(kA)>>, FALSE),
    AddInput(kC, <<op, KeyRef(kB), KeyRef(kX)>>, FALSE),
    AddInput(kC, <<func, KeyRef(kX)>>, FALSE),
    AddInput(kA, <<op, KeyRef(kB)>>, FALSE) }
FailKeys == {kA, kX, kB, kC}

\* Inputs of add() which make aliases: a key whose computation is another key.
kE == Bare("E")
AliasInputs ==
  { AddInput(kB, <<KeyRef(kD)>>, FALSE),
    AddInput(kB, <<KeyRef(kE)>>, FALSE),
    AddInput(kC, <<KeyRef(kB)>>, FALSE),
    AddInput(kE, <<Literal("2.0")>>, FALSE),
    AddInput(kE, <<KeyRef(kD)>>, FALSE),
    AddInput(kE, <<op, KeyRef(kD)>>, FALSE) }
AliasKeys == {kD, kB, kC, kE}

\* Keys of the name "q" with one and with three dimensions.
qx == Key("q", <<"x">>, "")
qxyz == Key("q", <<"x", "y", "z">>, "")

\* Inputs of add() with and without sums=True.
SumKeys == {kA, qxy, qyx, qxyz}
SumArgs == {<<Literal("1.0")>>, <<op, KeyRef(kA)>>}
PlainInputs ==
  { AddInput(kA, <<Literal("1.0")>>, FALSE),
    AddInput(q, <<Literal("1.0")>>, FALSE),
    AddInput(qx, <<Literal("1.0")>>, FALSE),
    AddInput(qxy, <<Literal("1.0")>>, TRUE) }

(* ------------------------------------------------------------------ *)
(* Specifications                                                       *)
(* ------------------------------------------------------------------ *)

\* add() on a new Computer.
Init == InitWith(NewGraph)

Next ==
  \E key \in AddKeys, args \in Computations, strict \in BOOLEAN :
     AddCall(key, args, strict)

Spec == Init /\ [][Next]_vars

\* get() on a Computer that holds "d", "A" = (op, "d") and "X" = (op, "d"),
\* after some more calls of add().
GraphDAX ==
  add(add(add(NewGraph, KeyRef(kD), <<Literal("1.0")>>, NoKw, <<ERROR>>).graph,
          KeyRef(kA), <<op, KeyRef(kD)>>, NoKw, <<ERROR>>).graph,
      KeyRef(kX), <<op, KeyRef(kD)>>, NoKw, <<ERROR>>).graph

InitGet == InitWith(GraphDAX)

NextGet ==
  \/ \E i \in GetInputs : AddCall(i.key, i.args, i.strict)
  \/ \E key \in GetKeys : GetCall(key)
  \/ GetStep
  \/ GetReturn

SpecGet == InitGet /\ [][NextGet]_vars

\* get() on graphs whose tasks may raise or form a cycle.
NextFail ==
  \/ \E i \in FailInputs : AddCall(i.key, i.args, i.strict)
  \/ \E key \in FailKeys : GetCall(key)
  \/ GetCycle
  \/ GetStep
  \/ GetRaise
  \/ GetReturn

SpecFail == InitGet /\ [][NextFail]_vars

\* get() is one synchronous call: once dask.get is called it runs until it
\* returns or raises.
FairGet ==
  /\ WF_vars(GetCycle)
  /\ WF_vars(GetStep)
  /\ WF_vars(GetRaise)
  /\ WF_vars(GetReturn)

SpecFailLive == SpecFail /\ FairGet

\* get() with and without a key, with default_key unset, naming a key of the
\* graph or naming a key that is not in it, on graphs whose tasks may raise.
DefaultInputs ==
  { AddInput(kB, <<func, KeyRef(kA)>>, FALSE),
    AddInput(kB, <<op, KeyRef(kA)>>, FALSE),
    AddInput(kA, <<op, KeyRef(kB)>>, FALSE) }
DefaultKeys == {None, kB, kC}
DefaultGetKeys == {None, kA, kC}

NextDefault ==
  \/ \E i \in DefaultInputs : AddCall(i.key, i.args, i.strict)
  \/ \E k \in DefaultKeys : SetDefaultKey(k)
  \/ \E key \in DefaultGetKeys : GetCall(key)
  \/ GetCycle
  \/ GetStep
  \/ GetRaise
  \/ GetReturn

SpecDefault == InitGet /\ [][NextDefault]_vars

\* get() on graphs with aliases.
NextAlias ==
  \/ \E i \in AliasInputs : AddCall(i.key, i.args, i.strict)
  \/ \E key \in AliasKeys : GetCall(key)
  \/ GetStep
  \/ GetReturn

SpecAlias == InitGet /\ [][NextAlias]_vars

\* add_queue on a Computer that holds "source".
InitQueue ==
  InitWith(add(NewGraph, KeyRef(kSource), <<Literal("1.0")>>, NoKw, <<ERROR>>).graph)

\* add_queue called by the user, with any of the queues, max_tries and fail.
AddQueue ==
  /\ pc = "idle"
  /\ \E vals \in DistinctQueues(QueueValues, MaxQueue), mt \in 0..MaxTries,
        f \in FailArgs : AddQueueCall(vals, mt, f)

NextQueue ==
  \/ AddQueue
  \/ QueueAttempt
  \/ QueueReturn

SpecQueue == InitQueue /\ [][NextQueue]_vars

\* add_queue with queues among whose items are queues: one with an item that
\* cannot be added, ("full_key", "missing"), and an item ("C", 1.0) after it;
\* once given to add() alone, once with max_tries 1 and fail "debug".
qInner ==
  List(<<Tuple(<<KeyRef(Bare("full_key")), KeyRef(Bare("missing"))>>),
         Tuple(<<KeyRef(kC), Literal("1.0")>>)>>)
vNested == Value(FALSE, <<qInner>>, NoKw)
vNestedDebug == Value(FALSE, <<qInner, Literal("1"), KeyRef(Bare("debug"))>>, NoKw)
NestedValues == {vNested, vNestedDebug, vB, vA, vFullKey}

AddQueueNested ==
  /\ pc = "idle"
  /\ \E vals \in DistinctQueues(NestedValues, MaxQueue), mt \in 0..MaxTries,
        f \in FailArgs : AddQueueCall(vals, mt, f)

NextNested ==
  \/ AddQueueNested
  \/ QueueAttempt
  \/ QueueReturn

SpecNested == InitQueue /\ [][NextNested]_vars

\* add_queue() is one synchronous call: the while loop keeps running until it
\* returns or raises.  This is WF_vars(QueueStep) with ENABLED written out: a
\* step of the loop is possible exactly when pc = "queue" (QueueReturn when
\* the queue is empty, QueueAttempt when it is not; add() is total and each
\* of the two changes pc or tries).
QueueStep == QueueAttempt \/ QueueReturn

FairQueue ==
  \/ []<>(pc # "queue")
  \/ []<><<QueueStep>>_vars

SpecNestedLive == SpecNested /\ FairQueue

\* add() with sums=True, among plain calls of add(), on a new Computer.
NextSums ==
  \/ \E i \in PlainInputs : AddCall(i.key, i.args, i.strict)
  \/ \E key \in SumKeys, args \in SumArgs, strict \in BOOLEAN :
        AddSumsCall(key, args, strict)

SpecSums == Init /\ [][NextSums]_vars

\* Keys of two names, with up to three dimensions in any order, with and
\* without a tag, compared and hashed two by two.
DimNames == {"a", "b", "c"}
DimSeqs ==
  {d \in UNION {[1..n -> DimNames] : n \in 0..Cardinality(DimNames)} :
     \A i, j \in DOMAIN d : i # j => d[i] # d[j]}
SomeKeys == {Key(n, d, t) : n \in {"foo", "bar"}, d \in DimSeqs, t \in {"", "baz"}}

InitKey == \E a, b \in SomeKeys : InitComputer(NewGraph, [a |-> a, b |-> b])

NextKey == Compare

SpecKey == InitKey /\ [][NextKey]_vars

\* add() in its two calling forms, on a Computer with "A" and keys named "q".
Groups == Obj("dict", "groups", <<>>, "", <<Literal("1.0")>>)
FormKeys == {kB, qxy, Bare("op"), Bare("sum"), Bare("full_key")}
FormOps == {"op", "aggregate"}
FormInputs ==
  { <<KeyRef(kA)>>,
    <<KeyRef(kA), KeyRef(Bare("x"))>>,
    <<KeyRef(kA), Groups>>,
    <<Literal("1.0")>> }
NextForms ==
  \/ \E i \in PlainInputs : AddCall(i.key, i.args, i.strict)
  \/ \E key \in FormKeys, o \in FormOps, inputs \in FormInputs, strict, dep \in BOOLEAN :
        AddForms(key, o, inputs, strict, dep)

SpecForms == Init /\ [][NextForms]_vars

\* add() with data of every shape, on a Computer with "A".
qA == List(<<Tuple(<<KeyRef(kA), Literal("1.0")>>)>>)
qBA == List(<<Tuple(<<KeyRef(kB), op, KeyRef(kA)>>), Tuple(<<KeyRef(kA), Literal("1.0")>>)>>)
qFullKey == Tuple(<<Tuple(<<KeyRef(Bare("full_key")), KeyRef(kB)>>),
                    Tuple(<<KeyRef(kB), Literal("1.0")>>)>>)
qNested == List(<<Tuple(<<qFullKey>>), Tuple(<<KeyRef(kA), Literal("1.0")>>)>>)
DataSequences == {qA, qBA, qFullKey, qNested, List(<<>>)}
DataStrings ==
  {KeyRef(Bare("full_key")), KeyRef(Bare("aggregate")), KeyRef(Bare("add")),
   KeyRef(Bare("graph")), KeyRef(Bare("op")), KeyRef(Bare("sum")), KeyRef(kB),
   KeyRef(qxy)}
DataArgs ==
  { <<>>,
    <<KeyRef(kA)>>,
    <<KeyRef(qxy), KeyRef(Bare("t")), KeyRef(Bare("x"))>>,
    <<KeyRef(qxy), KeyRef(Bare("t")), Groups>>,
    <<op, KeyRef(kA)>>,
    <<Literal("2")>>,
    <<Literal("2"), KeyRef(Bare("debug"))>> }
NextDispatch ==
  \/ \E i \in PlainInputs : AddCall(i.key, i.args, i.strict)
  \/ \E data \in DataSequences \cup DataStrings, args \in DataArgs, strict \in BOOLEAN :
        AddData(data, args, Kw(strict))

SpecDispatch == Init /\ [][NextDispatch]_vars

\* Binary operations on two Quantities: "a" is 1 in any units, with an attr
\* "foo"; "b" is 1 or 2 in any units, with or without a name and an attr.
\* A Quantity made without units has no "_unit" in its attrs.
UnitAttrs ==
  {Attrs(FALSE, dimensionless, {}), Attrs(TRUE, dimensionless, {})}
    \cup {Attrs(TRUE, Unit(u), {}) : u \in UnitNames}
QuantitiesA ==
  {Quantity(One, <<"x">>, "a", [at EXCEPT !.rest = {"foo"}]) : at \in UnitAttrs}
QuantitiesB ==
  {Quantity(Rat(v, 1), <<>>, n, [at EXCEPT !.rest = r]) :
     v \in {1, 2}, n \in {"", "b"}, r \in {{}, {"bar"}}, at \in UnitAttrs}
Operands ==
  {Operand("quantity", wrap(One)), Operand("number", wrap(Rat(2, 1))),
   Operand("str", wrap(One))}

InitArith == \E a \in QuantitiesA, b \in QuantitiesB : InitState(NewGraph, NoKeys, a, b)

NextArith ==
  \E rname \in BinaryOps, x \in {"a", "b"}, other \in Operands : BinaryOp(rname, x, other)

SpecArith == InitArith /\ [][NextArith]_vars

\* get_comp() and require_compat() in any order.
CompNames ==
  {KeyRef(Bare("op")), KeyRef(Bare("plot")), KeyRef(Bare("nothing")), KeyRef(qxy),
   Literal("1.0"), Callable("op")}
Pkgs ==
  {Pkg("module", m, TRUE) : m \in ModuleNames}
    \cup {Pkg("dotted", "compat_b", TRUE), Pkg("dotted", "", TRUE),
          Pkg("compat", "compat_a", TRUE), Pkg("compat", "compat_a", FALSE)}
NextModules ==
  \/ \E name \in CompNames : GetCompCall(name)
  \/ \E pkg \in Pkgs : RequireCompatCall(pkg)

SpecModules == Init /\ [][NextModules]_vars

\* add(), with and without sums=True, then full_key().
FullKeyArgs == {q, qx, qxy, qyx, kA, kB}
NextFull ==
  \/ NextSums
  \/ \E key \in FullKeyArgs : FullKeyCall(key)

SpecFull == Init /\ [][NextFull]_vars

(* ------------------------------------------------------------------ *)
(* Properties of add_queue                                              *)
(* ------------------------------------------------------------------ *)

Done == pc \in {"returned", "raised"}
Terminal == {"added", "discarded", "raised"}
KeyErrorClasses == {"KeyError", "MissingKeyError", "KeyExistsError"}

\* An element that adds a task: its target key and the keys of its inputs.
IsAddValue(v) == Len(v.args) >= 3 /\ v.args[2].py = "callable"
TargetOf(v) == KeyOf(v.args[1])
InputsOf(v) == {KeyOf(v.args[i]) : i \in 3..Len(v.args)}
IsStrictValue(v) == v.pair /\ v.kw.strict

\* The targets of the elements of S that can be added, in some order, to a
\* graph holding the keys `have`.
RECURSIVE Addable(_, _)
Addable(S, have) ==
  LET now == {v \in S : ~IsStrictValue(v) \/ InputsOf(v) \subseteq have}
  IN IF now = {} THEN have
     ELSE Addable(S \ now, have \cup {TargetOf(v) : v \in now})

\* Every input of every element is supplied by the graph or by another
\* element of the queue; the elements add distinct keys not yet in the graph.
AllSupplied(vals, g) ==
  /\ \A i \in DOMAIN vals : IsAddValue(vals[i])
  /\ \A i \in DOMAIN vals : TargetOf(vals[i]) \notin DOMAIN g.tasks
  /\ \A i, j \in DOMAIN vals : i # j => TargetOf(vals[i]) # TargetOf(vals[j])
  /\ \A i \in DOMAIN vals : \A k \in InputsOf(vals[i]) :
        \/ k \in DOMAIN g.tasks
        \/ \E j \in DOMAIN vals : j # i /\ TargetOf(vals[j]) = k

\* C2 as stated: for a queue whose dependencies are all supplied by the graph
\* or by other items, every order of the queue ends with the same set of keys
\* in the graph (the keys that some order of the items can add), whatever
\* max_tries is.
C2_AnyOrderSameKeys ==
  (Done /\ AllSupplied(values, prev))
    => DOMAIN graph.tasks = Addable(Range(values), DOMAIN prev.tasks)

\* C2, amended: the same, for max_tries at least the length of the queue.
C2_AnyOrderSameKeys_EnoughTries ==
  (Done /\ AllSupplied(values, prev) /\ max_tries >= Len(values))
    => DOMAIN graph.tasks = Addable(Range(values), DOMAIN prev.tasks)

\* the three-item chain, passed last item first, with max_tries = 3
C2_Witness ==
  /\ pc = "returned"
  /\ values = <<vC, vB, vA>>
  /\ max_tries = 3
  /\ {kA, kB, kC} \subseteq DOMAIN graph.tasks

\* C3 as stated: an item is re-queued only when its attempt raised
\* MissingKeyError, and an attempt that raised anything else made add_queue
\* raise that exception at once.
C3_RequeueOnlyOnMissingKey ==
  /\ last.requeued => last.exc.type = "MissingKeyError"
  /\ (last.id # 0 /\ last.exc # NoExc /\ last.exc.type # "MissingKeyError")
       => (pc = "raised" /\ exc = last.exc /\ ~last.requeued)

\* C3, amended: an item is re-queued only when its attempt raised a KeyError
\* (KeyError itself, MissingKeyError or KeyExistsError) and it has tries
\* left; an attempt that raises an exception that is not a KeyError makes
\* add_queue raise that exception at once, without re-queuing the item,
\* whatever max_tries and fail are.
C3_RequeueOnlyOnKeyError ==
  /\ last.requeued => (last.exc.type \in KeyErrorClasses /\ last.count < max_tries)
  /\ (last.id # 0 /\ last.exc # NoExc /\ last.exc.type \notin KeyErrorClasses)
       => /\ pc = "raised"
          /\ exc = last.exc
          /\ ~last.requeued
          /\ fate[last.id] = "raised"
          /\ \A i \in DOMAIN queue : queue[i].id # last.id

\* after ("B", op, "A") strict was re-queued, ("B",) raises TypeError on its
\* first try although tries are left and fail is "debug"
C3_Witness ==
  /\ pc = "raised"
  /\ values = <<vB, vNoArgs>>
  /\ max_tries = 3
  /\ fail = DEBUG
  /\ exc.type = "TypeError"
  /\ fate = <<"trying", "raised">>
  /\ tries = <<1, 1>>

\* At most one entry of the queue per item, none for an item in a final state.
QueuedOnce ==
  /\ \A i, j \in DOMAIN queue : i # j => queue[i].id # queue[j].id
  /\ \A i \in DOMAIN queue : fate[queue[i].id] \in {"new", "trying"}
  /\ \A i \in DOMAIN queue : queue[i].count = tries[queue[i].id] + 1
  /\ \A i \in DOMAIN fate : fate[i] \in {"new", "trying"} =>
        (pc = "queue" => \E j \in DOMAIN queue : queue[j].id = i)

\* C4 as stated: with max_tries >= 1 no item is tried more than max_tries
\* times or tried again once added, discarded or raised, and when add_queue
\* ends every item has been tried at least once and is added, discarded or
\* raised.
C4_ItemStateMachine ==
  (max_tries >= 1) =>
    /\ \A i \in DOMAIN tries : tries[i] <= max_tries
    /\ \A i \in DOMAIN queue : queue[i].count <= max_tries
    /\ QueuedOnce
    /\ Done => \A i \in DOMAIN fate : tries[i] >= 1 /\ fate[i] \in Terminal

\* C4, amended: with max_tries >= 1 no item is tried more than max_tries times
\* or tried again once added, discarded or raised; when add_queue returns,
\* every item has been tried at least once and is added or discarded; when
\* add_queue raises, exactly the item tried last is raised and the items
\* behind it in the queue stay new or trying, never tried again.
C4_ItemStateMachine_UntilRaise ==
  (max_tries >= 1) =>
    /\ \A i \in DOMAIN tries : tries[i] <= max_tries
    /\ \A i \in DOMAIN queue : queue[i].count <= max_tries
    /\ QueuedOnce
    /\ \A i \in DOMAIN fate : (fate[i] = "new") <=> (tries[i] = 0)
    /\ pc = "returned" =>
         \A i \in DOMAIN fate : tries[i] >= 1 /\ fate[i] \in {"added", "discarded"}
    /\ \A i \in DOMAIN fate : fate[i] = "raised" => (pc = "raised" /\ i = last.id)
    /\ pc = "raised" => fate[last.id] = "raised"

\* an item discarded after two tries and an item added, max_tries = 2
C4_Witness ==
  /\ pc = "returned"
  /\ values = <<vC, vA>>
  /\ max_tries = 2
  /\ tries = <<2, 1>>
  /\ fate = <<"discarded", "added">>

\* C5 as stated: the queue [("B", op, "A"), ("A", op, "source")] with
\* max_tries = 2 ends with B and A added; with max_tries = 1 it fails with
\* MissingKeyError naming A when the first item is tried.
C5_Scenario ==
  (Done /\ values = <<Positional(kB, kA), Positional(kA, kSource)>> /\ fail = ERROR) =>
    /\ max_tries = 2 =>
         (pc = "returned" /\ Range(result) = {kA, kB}
            /\ {kA, kB} \subseteq DOMAIN graph.tasks)
    /\ max_tries = 1 =>
         (pc = "raised" /\ exc = Exc("MissingKeyError", <<KeyRef(kA)>>)
            /\ tries = <<1, 0>>)

\* C5, amended: the same queue with each item passed as (args,
\* dict(strict=True)), and fail left at "raise": with max_tries = 2 both are
\* added, A before B; with max_tries = 1 the first item fails with
\* MissingKeyError naming A, nothing is added and the second item is not tried.
C5_Scenario_Strict ==
  (Done /\ values = <<vB, vA>> /\ fail = ERROR) =>
    /\ max_tries = 2 =>
         (pc = "returned" /\ result = <<kA, kB>> /\ tries = <<2, 1>>
            /\ DOMAIN graph.tasks = DOMAIN prev.tasks \cup {kA, kB})
    /\ max_tries = 1 =>
         (pc = "raised" /\ exc = Exc("MissingKeyError", <<KeyRef(kA)>>)
            /\ tries = <<1, 0>> /\ graph = prev)

\* the strict queue, max_tries = 1, has raised
C5_Witness ==
  /\ pc = "raised"
  /\ values = <<vB, vA>>
  /\ max_tries = 1
  /\ fail = ERROR
  /\ exc.type = "MissingKeyError"

\* The key that the add of a queue element returns: the key of the task, or
\* for ("full_key", name) the stored key of that name (keys of this queue
\* have no dimensions).
ReturnedKey(v) == IF IsAddValue(v) THEN TargetOf(v) ELSE KeyOf(v.args[2])

\* C6: an item that fails with a KeyError on its last permitted try makes
\* add_queue raise that error when the failure action is at or above ERROR
\* ("raise"), and then no further item is tried; below ERROR the failure is
\* logged at that level, the item is discarded and the loop goes on, so that
\* when add_queue returns every item has been tried and the keys returned are
\* those of exactly the items added.
C6_FailureAction ==
  /\ (last.id # 0 /\ last.exc.type \in KeyErrorClasses /\ ~last.requeued) =>
        /\ last.count >= max_tries
        /\ <<last.id, fail>> \in Range(logged)
        /\ fail >= ERROR => (pc = "raised" /\ exc = last.exc /\ fate[last.id] = "raised")
        /\ fail < ERROR => (pc # "raised" /\ fate[last.id] = "discarded")
  /\ \A i \in DOMAIN fate : fate[i] = "discarded" =>
        (fail < ERROR /\ <<i, fail>> \in Range(logged) /\ tries[i] >= max_tries)
  /\ pc = "raised" =>
        /\ fate[last.id] = "raised"
        /\ result = <<>>
        /\ \A i \in DOMAIN queue : fate[queue[i].id] \in {"new", "trying"}
  /\ pc = "returned" =>
        /\ \A i \in DOMAIN fate : tries[i] >= 1 /\ fate[i] \in {"added", "discarded"}
        /\ Range(result) = {ReturnedKey(values[i]) : i \in {j \in DOMAIN fate : fate[j] = "added"}}
        /\ Len(result) = Cardinality({j \in DOMAIN fate : fate[j] = "added"})

\* fail = "debug": the first item was discarded, the second then added
C6_Witness ==
  /\ pc = "returned"
  /\ values = <<vC, vA>>
  /\ max_tries = 1
  /\ fail = DEBUG
  /\ fate = <<"discarded", "added">>
  /\ logged = <<<<1, DEBUG>>>>
  /\ result = <<kA>>

(* ------------------------------------------------------------------ *)
(* Properties of get                                                    *)
(* ------------------------------------------------------------------ *)

\* Every key or string written anywhere in a task.
RECURSIVE Mentions(_)
Mentions(o) ==
  IF o.py = "key" THEN {KeyOf(o)}
  ELSE UNION {Mentions(o.items[i]) : i \in DOMAIN o.items}

\* The keys of g that some key of S refers to, directly or through others.
RECURSIVE Reach(_, _)
Reach(g, S) ==
  LET more == S \cup UNION {Mentions(g.tasks[k]) \cap DOMAIN g.tasks : k \in S}
  IN IF more = S THEN S ELSE Reach(g, more)

\* The transitive dependency closure of k in g.
Closure(g, k) == Reach(g, {k})

\* The keys of g whose task is a callable with arguments.
CallableTasks(g) ==
  {k \in DOMAIN g.tasks :
     g.tasks[k].py = "tuple" /\ g.tasks[k].items # <<>>
       /\ g.tasks[k].items[1].py = "callable"}

Invocations(k) == IF k \in DOMAIN invoked THEN invoked[k] ELSE 0

\* C1: when get(k) has returned, the callable of every task in the
\* transitive dependency closure of k has been invoked, once, and the callable
\* of no other task; while get runs, no callable outside the closure is
\* invoked.
C1_GetInvokesClosure ==
  /\ pc = "got" =>
       \A k \in DOMAIN graph.tasks :
          Invocations(k) =
            IF k \in CallableTasks(graph) \cap Closure(graph, target) THEN 1 ELSE 0
  /\ pc \in {"get", "got"} =>
       /\ DOMAIN invoked \subseteq CallableTasks(prev) \cap Closure(prev, target)
       /\ \A k \in DOMAIN invoked : invoked[k] = 1

\* get("C") with C = (op, "B", "d"), B = (op, "A"), A = (op, "d") and
\* X = (op, "d") has returned
C1_Witness ==
  /\ pc = "got"
  /\ target = kC
  /\ DOMAIN invoked = {kA, kB, kC}
  /\ kX \in CallableTasks(graph)
  /\ graph.tasks[kC] = Tuple(<<op, KeyRef(kB), KeyRef(kD)>>)

(* ------------------------------------------------------------------ *)
(* Properties of add                                                    *)
(* ------------------------------------------------------------------ *)

\* The computation that add(key, *args) hands to the graph when not strict.
AsGiven(args) ==
  IF Len(args) = 1 /\ args[1].py # "callable" THEN args[1] ELSE Tuple(args)

\* The keys a computation refers to: the alias, or the elements of the task
\* or list that are keys or strings.
Referred(c) ==
  IF c.py = "key" THEN <<c>>
  ELSE SelectSeq(c.items, LAMBDA e : e.py = "key")

\* Some key of g has the name of k, so that unsorted_key or full_key finds one.
Present(g, k) == \E stored \in DOMAIN g.tasks : stored.name = k.name

Absent(g, c) == SelectSeq(Referred(c), LAMBDA e : ~Present(g, KeyOf(e)))

\* C7: add with strict=True on a key already in the graph raises
\* KeyExistsError for that key and leaves the graph as it was; without strict
\* the new task replaces the old one and every other entry stays.
C7_StrictOverExisting ==
  (lastAdd.made /\ lastAdd.key \in DOMAIN prev.tasks) =>
     IF lastAdd.strict
       THEN exc = Exc("KeyExistsError", <<KeyRef(lastAdd.key)>>) /\ graph = prev
       ELSE /\ exc = NoExc
            /\ DOMAIN graph.tasks = DOMAIN prev.tasks
            /\ graph.tasks[lastAdd.key] = AsGiven(lastAdd.args)
            /\ \A k \in DOMAIN prev.tasks \ {lastAdd.key} : graph.tasks[k] = prev.tasks[k]

\* the second add was strict, on the key of the first, and raised
C7_Witness ==
  /\ nAdds = 2
  /\ lastAdd.strict
  /\ lastAdd.key = kA
  /\ exc.type = "KeyExistsError"
  /\ graph.tasks[kA] = Literal("1.0")

\* C8: add with strict=True of a computation that refers to a key not in the
\* graph raises MissingKeyError and adds nothing, whether the computation is a
\* task, a list of keys or an alias.
C8_StrictMissingRaises ==
  (lastAdd.made /\ lastAdd.strict /\ lastAdd.key \notin DOMAIN prev.tasks
     /\ Absent(prev, AsGiven(lastAdd.args)) # <<>>)
    => (exc.type = "MissingKeyError" /\ graph = prev)

\* C9: the MissingKeyError of a strict add carries, in their order, the keys
\* the computation refers to that are absent from the graph, and no other.
C9_AllMissingReported ==
  (lastAdd.made /\ exc.type = "MissingKeyError")
    => /\ lastAdd.strict
       /\ exc.keys = Absent(prev, AsGiven(lastAdd.args))
       /\ \A i \in DOMAIN exc.keys : ~Present(graph, KeyOf(exc.keys[i]))

\* with "A" in the graph, the task (op, "q:y-x", "A") was added strict: the
\* error names q:y-x and not "A"
C9_Witness ==
  /\ nAdds = 2
  /\ lastAdd.args = <<op, KeyRef(qyx), KeyRef(kA)>>
  /\ kA \in DOMAIN prev.tasks
  /\ exc = Exc("MissingKeyError", <<KeyRef(qyx)>>)

\* C10: after a successful add with strict=True, every key or string in the
\* stored task is spelled as a key of the graph.
C10_StoredRefsCanonical ==
  (lastAdd.made /\ lastAdd.strict /\ exc = NoExc)
    => \A i \in DOMAIN Referred(graph.tasks[lastAdd.key]) :
          KeyOf(Referred(graph.tasks[lastAdd.key])[i]) \in DOMAIN graph.tasks

(* ------------------------------------------------------------------ *)
(* Properties of add with sums                                          *)
(* ------------------------------------------------------------------ *)

\* The keys with the name and tag of k and a strict subset of its
\* dimensions, in the order k has them.
PartialSumKeys(k) ==
  {Key(k.name, SelectSeq(k.dims, LAMBDA d : d \in S), k.tag) :
     S \in (SUBSET Range(k.dims)) \ {Range(k.dims)}}

\* The dimensions of k that sk has not.
DroppedDims(k, sk) == SelectSeq(k.dims, LAMBDA d : d \notin Range(sk.dims))

\* C11: add(k, task, sums=True) that returns has added k and, for every
\* strict subset of the dimensions of k (the empty one included), the key
\* with k's name, tag and those dimensions, whose task sums k over the
\* dimensions dropped; it returns k followed by those keys, each once.
C11_PartialSums ==
  (lastAdd.made /\ lastAdd.sums /\ exc = NoExc) =>
    /\ result # <<>>
    /\ result[1] = lastAdd.key
    /\ lastAdd.key \in DOMAIN graph.tasks
    /\ Range(Tail(result)) = PartialSumKeys(lastAdd.key)
    /\ Len(result) = 2 ^ Len(lastAdd.key.dims)
    /\ \A sk \in PartialSumKeys(lastAdd.key) :
         /\ sk \in DOMAIN graph.tasks
         /\ graph.tasks[sk].py = "tuple"
         /\ Len(graph.tasks[sk].items) = 4
         /\ graph.tasks[sk].items[1] = Callable("sum")
         /\ graph.tasks[sk].items[2] = KeyRef(lastAdd.key)
         /\ graph.tasks[sk].items[4].dims = DroppedDims(lastAdd.key, sk)

\* add("q:x-y-z", 1.0, sums=True) has returned the key and 7 partial sums
C11_Witness ==
  /\ lastAdd.made
  /\ lastAdd.sums
  /\ lastAdd.key = qxyz
  /\ exc = NoExc
  /\ Len(result) = 8
  /\ Key("q", <<"x", "z">>, "") \in DOMAIN graph.tasks

\* C12: add(k, task, strict=True, sums=True), with the key of a partial sum
\* of k already in the graph, raises KeyExistsError and overwrites no
\* existing entry.
C12_StrictSumsKeyExists ==
  (lastAdd.made /\ lastAdd.sums /\ lastAdd.strict
     /\ PartialSumKeys(lastAdd.key) \cap DOMAIN prev.tasks # {})
    => /\ exc.type = "KeyExistsError"
       /\ \A sk \in PartialSumKeys(lastAdd.key) \cap DOMAIN prev.tasks :
            graph.tasks[sk] = prev.tasks[sk]

\* The key whose task raised during the last get.
FailingKey == task_exc.key

\* C13 as stated: any exception raised by a task during get(key) reaches the
\* caller as a ComputationError which identifies the failing key and carries
\* the original exception; no exception of another type escapes.
C13_TaskErrorWrapped ==
  (pc = "failed" /\ task_exc # NoExc)
    => /\ exc.type = "ComputationError"
       /\ exc.cause = task_exc
       /\ exc.cause.key = FailingKey

\* C13, amended: an exception raised by a task during get(key) reaches the
\* caller as a ComputationError which identifies the failing key and carries
\* the original exception when its class derives from Exception; an exception
\* of a class which derives from BaseException only (KeyboardInterrupt,
\* SystemExit, GeneratorExit) reaches the caller itself, not wrapped.
C13_ExceptionWrapped ==
  (pc = "failed" /\ task_exc # NoExc)
    => /\ task_raises(dsk[FailingKey]) = task_exc.type
       /\ IF task_exc.type \in BaseExceptionOnly
            THEN exc = task_exc
            ELSE /\ exc.type = "ComputationError"
                 /\ exc.cause = task_exc
                 /\ exc.cause.key = FailingKey

C13_Witness ==
  /\ pc = "failed"
  /\ target = kC
  /\ task_exc = TaskExc("TypeError", kB)
  /\ exc.type = "ComputationError"
  /\ exc.cause.key = kB

\* Key k is an alias in g: its computation is another key of g.
IsAlias(g, k) ==
  k \in DOMAIN g.tasks /\ g.tasks[k].py = "key" /\ KeyOf(g.tasks[k]) \in DOMAIN g.tasks

\* The key at the end of the chain of aliases that starts at k.
RECURSIVE AliasEnd(_, _, _)
AliasEnd(g, k, seen) ==
  IF IsAlias(g, k) /\ k \notin seen
    THEN AliasEnd(g, KeyOf(g.tasks[k]), seen \cup {k})
    ELSE k

\* The number of aliases on the chain that starts at k.
RECURSIVE AliasLen(_, _, _)
AliasLen(g, k, seen) ==
  IF IsAlias(g, k) /\ k \notin seen
    THEN 1 + AliasLen(g, KeyOf(g.tasks[k]), seen \cup {k})
    ELSE 0

\* C14: when a chain of aliases k1 -> k2 -> ... ends at a key whose computation
\* is a literal value v, in whatever order the aliases and v were added, get
\* of every key on the chain returns v.
C14_AliasTransitive ==
  pc = "got"
    => LET e == AliasEnd(graph, target, {})
       IN (e \in DOMAIN graph.tasks /\ graph.tasks[e].py = "obj")
            => result = <<graph.tasks[e]>>

\* get("B") returns the literal of "E", the alias B -> E
\* having been added before the literal of "E"
C14_Witness ==
  /\ pc = "got"
  /\ target = kB
  /\ graph.tasks[kB] = KeyRef(kE)
  /\ lastAdd.key = kE
  /\ lastAdd.args = <<Literal("2.0")>>
  /\ AliasLen(graph, target, {}) = 1
  /\ result = <<Literal("2.0")>>

\* The keys whose callable a step invokes: those whose count of calls grows.
InvokedBy(before, after) ==
  {k \in DOMAIN after : after[k] > (IF k \in DOMAIN before THEN before[k] ELSE 0)}

\* The keys that the task of k in g depends on.
DependsOn(g, k) == (Mentions(g.tasks[k]) \cap DOMAIN g.tasks) \ {k}

\* C15: during one get, every step evaluates one task, and invokes the
\* callable of a task only when every task it depends on has finished, that
\* is, has its result in the cache.
C15_TopologicalOrder ==
  [][ (pc = "get" /\ pc' = "get")
        => /\ Cardinality(DOMAIN cache' \ DOMAIN cache) <= 1
           /\ Cardinality(InvokedBy(invoked, invoked')) <= 1
           /\ \A k \in InvokedBy(invoked, invoked') :
                /\ invoked'[k] = 1
                /\ DependsOn(prev, k) \subseteq DOMAIN cache ]_vars

\* get("C") has invoked the callable of "C" = (op, "B", "d") last, after those
\* of "A" and "B"
C15_Witness ==
  /\ pc = "get"
  /\ target = kC
  /\ DOMAIN invoked = {kA, kB, kC}
  /\ DOMAIN cache = {kD, kA, kB, kC}
  /\ graph.tasks[kC] = Tuple(<<op, KeyRef(kB), KeyRef(kD)>>)
  /\ graph.tasks[kB] = Tuple(<<op, KeyRef(kA)>>)

\* C16: in one get the callable of each task is invoked at most once; when
\* get has returned, the graph maps every key to the task it had before the
\* call, no result being stored; and a later get of the same key invokes the
\* callables of the closure again, each once.
C16_MemoPerGet ==
  /\ pc \in {"get", "got"} => \A k \in DOMAIN invoked : invoked[k] <= 1
  /\ pc = "got" => (graph.tasks = prev.tasks /\ graph = prev)
  /\ pc = "got" =>
       \A i \in DOMAIN gets :
          gets[i].key = target =>
            /\ gets[i].exc = NoExc
            /\ DOMAIN gets[i].invoked = CallableTasks(graph) \cap Closure(graph, target)
            /\ \A k \in DOMAIN gets[i].invoked : gets[i].invoked[k] = 1

\* get("C") has returned twice, with C = (op, "B", "d") and B = (op, "A")
C16_Witness ==
  /\ pc = "got"
  /\ Len(gets) = 2
  /\ gets[1].key = kC
  /\ gets[2].key = kC
  /\ DOMAIN gets[1].invoked = {kA, kB, kC}
  /\ DOMAIN gets[2].invoked = {kA, kB, kC}
  /\ graph.tasks[kC] = Tuple(<<op, KeyRef(kB), KeyRef(kD)>>)

\* The keys of the culled graph which are on a cycle.
CycleKeys == {k \in DOMAIN dsk : k \in Reach(prev, DependsOn(prev, k))}

\* C17 as stated: get(key) with a cycle among the dependencies of key fails
\* with a DimensionError which names a key on the cycle, and neither runs on
\* nor returns a value.
C17_CycleDimensionError ==
  (pc \in {"got", "failed"} /\ CycleKeys # {})
    => /\ pc = "failed"
       /\ exc.type = "DimensionError"
       /\ \E k \in CycleKeys : KeyRef(k) \in Range(exc.keys)

\* C17, amended: get(key) with a cycle among the dependencies of key fails
\* before any callable is invoked: the scheduler raises an exception which
\* names a key on the cycle, and get raises ComputationError carrying it;
\* get does not return a value, and no DimensionError is raised. (CycleFails
\* is what holds in every state; the formula adds that get, once it has called
\* the scheduler, does fail.)
CycleFails ==
  /\ (pc = "get" /\ CycleKeys # {}) => (invoked = EmptyMap /\ cache = EmptyMap)
  /\ (pc \in {"got", "failed"} /\ CycleKeys # {})
       => /\ pc = "failed"
          /\ result = <<>>
          /\ invoked = EmptyMap
          /\ exc.type = "ComputationError"
          /\ exc.cause.type = "RuntimeError"
          /\ \E k \in CycleKeys : KeyRef(k) \in Range(exc.cause.keys)

C17_CycleComputationError ==
  /\ []CycleFails
  /\ (pc = "get" /\ CycleKeys # {}) ~> (pc = "failed")

\* get("B") has failed, with B = (op, "A") and A = (op, "B")
C17_Witness ==
  /\ pc = "failed"
  /\ target = kB
  /\ CycleKeys = {kA, kB}
  /\ exc.type = "ComputationError"
  /\ exc.cause = CycleExc(kA)

\* The stored keys with the name of k.
Named(g, k) == {x \in DOMAIN g.tasks : x.name = k.name}

C19_WitnessKeyError ==
  pc = "asked" /\ target = kB /\ exc.type = "KeyError" /\ lastAdd.sums

(* ------------------------------------------------------------------ *)
(* Properties of Key                                                    *)
(* ------------------------------------------------------------------ *)

\* The same dimensions, possibly in another order.
SameDimSet(a, b) ==
  /\ Len(a.dims) = Len(b.dims)
  /\ \A d \in Range(a.dims) : \E i \in DOMAIN b.dims : b.dims[i] = d

\* The string form of k written out, with the dimensions in their given order.
Spelled(k) ==
  <<k.name>>
    \o (IF k.dims # <<>> \/ k.tag # "" THEN <<":">> ELSE <<>>)
    \o [i \in 1..(2 * Len(k.dims) - (IF k.dims = <<>> THEN 0 ELSE 1)) |->
          IF i % 2 = 1 THEN k.dims[(i + 1) \div 2] ELSE "-"]
    \o (IF k.tag # "" THEN <<":", k.tag>> ELSE <<>>)

\* C20: two Keys are equal exactly when name, tag and the set of dimensions
\* agree, in whatever order the dimensions are; a Key equals its string form,
\* and the string form of every Key it equals; hash(k) is the hash of the
\* string form of k with the dimensions as given, so that equal Keys whose
\* dimensions are in different orders hash differently.
C20_KeyEqHash ==
  cmp.done =>
    /\ cmp.eq <=> (keys.a.name = keys.b.name /\ keys.a.tag = keys.b.tag
                     /\ SameDimSet(keys.a, keys.b))
    /\ cmp.eq_own_str
    /\ cmp.eq_str <=> cmp.eq
    /\ cmp.hash_a = cmp.hash_str
    /\ cmp.hash_a = HashStr(Spelled(keys.a))
    /\ (cmp.eq /\ keys.a.dims # keys.b.dims) => cmp.hash_a # cmp.hash_b
    /\ (keys.a.dims = keys.b.dims /\ cmp.eq) => cmp.hash_a = cmp.hash_b

\* Key("foo", "abc") and Key("foo", "cba") of test_sorted are equal and hash
\* differently
C20_Witness ==
  /\ cmp.done
  /\ keys.a = Key("foo", <<"a", "b", "c">>, "")
  /\ keys.b = Key("foo", <<"c", "b", "a">>, "")
  /\ cmp.eq
  /\ cmp.eq_str
  /\ cmp.hash_a = <<"foo", ":", "a", "-", "b", "-", "c">>
  /\ cmp.hash_a # cmp.hash_b

(* ------------------------------------------------------------------ *)
(* Properties of get_comp and require_compat                            *)
(* ------------------------------------------------------------------ *)

\* The places of `mods` whose module has a callable of this name.
Defining(mods, name) == {i \in DOMAIN mods : name \in Defines(mods[i])}

\* A Python str (a key-like without being a Key object is written as a str).
IsStr(o) == o.py = "key"

\* What get_comp is to return for the name asked.
Expected(mods, o) ==
  IF ~IsStr(o) \/ o.dims # <<>> \/ o.tag # "" \/ Defining(mods, o.name) = {}
    THEN PyNone
    ELSE LET last_one == CHOOSE i \in Defining(mods, o.name) :
                            \A j \in Defining(mods, o.name) : j <= i
         IN ModuleAttr(mods[last_one], o.name)

SameOutcome ==
  /\ forms.a.exc = forms.b.exc
  /\ forms.a.keys = forms.b.keys
  /\ forms.a.graph = forms.b.graph
  /\ forms.a.exc = NoExc =>
       /\ forms.a.keys = <<forms.key>>
       /\ forms.key \in DOMAIN forms.a.graph.tasks
       /\ forms.a.graph.tasks[forms.key].py = "tuple"
       /\ Len(forms.a.graph.tasks[forms.key].items) = 1 + Len(forms.inputs)
       /\ forms.a.graph.tasks[forms.key].items[1] = Callable(forms.op)
       /\ ~forms.strict => Tail(forms.a.graph.tasks[forms.key].items) = forms.inputs

\* A str that add() takes for the name of a method of Computer.
IsMethodName(k) == k.dims = <<>> /\ k.tag = "" /\ k.name \in DirComputer \ {"add"}

\* C22 as stated: for an operator name op known to get_comp, add(key, op,
\* *inputs, **kw) and the deprecated add(op, key, *inputs, **kw) return the
\* same key and store the same task at that key.
C22_FormsEquivalent ==
  (forms.made /\ get_comp(KeyRef(Bare(forms.op))) # PyNone) => SameOutcome

\* C22, amended: the two forms are equivalent for an operator name op known
\* to get_comp which is not the name of a method of Computer, and a key which
\* is neither the name of a method of Computer nor known to get_comp.
C22_FormsEquivalentUnlessMethod ==
  (forms.made /\ get_comp(KeyRef(Bare(forms.op))) # PyNone
     /\ ~IsMethodName(Bare(forms.op))
     /\ ~IsMethodName(forms.key)
     /\ get_comp(KeyRef(forms.key)) = PyNone)
    => SameOutcome

\* add("q:x-y", "op", "A", "x") and add("op", "q:x-y", "A", "x") both store
\* (op, "A", "x") at "q:x-y"
C22_Witness ==
  /\ forms.made
  /\ forms.op = "op"
  /\ forms.key = qxy
  /\ forms.inputs = <<KeyRef(kA), KeyRef(Bare("x"))>>
  /\ forms.a.exc = NoExc
  /\ forms.b.keys = <<qxy>>
  /\ forms.b.graph.tasks[qxy] = Tuple(<<op, KeyRef(kA), KeyRef(Bare("x"))>>)
  /\ lastAdd.key = Bare("op")
  /\ graph = forms.b.graph

(* ------------------------------------------------------------------ *)
(* Properties of the dispatch of add                                    *)
(* ------------------------------------------------------------------ *)

\* isinstance(data, str), for the names at hand
IsStrData(o) == IsBareStr(o)

\* A sequence that is not a str goes to add_queue; a str naming a method of
\* Computer other than add goes to that method, with the remaining arguments,
\* and its result is returned, even when the str also names a computation.
DispatchedToOthers ==
  /\ call.data.py \in {"list", "tuple"} =>
       call.r = add_queue(call.before, call.data, call.args, call.kw, call.stack)
  /\ (IsStrData(call.data) /\ call.data.name = "full_key") =>
       /\ call.r = method_full_key(call.before, call.args, call.kw, call.stack)
       /\ call.r.graph = call.before
  /\ (IsStrData(call.data) /\ call.data.name = "aggregate") =>
       call.r = Computer_aggregate(call.before, call.args, call.kw, call.stack)

\* `data` was taken for the name of a computation or for the key to add.
AsComputationOrKey ==
  call.r = add_named(call.before, call.data, call.args, call.kw, call.stack)

\* C23: add() dispatches on the shape of data. A sequence that is not a str
\* goes to add_queue; a str naming a method of Computer other than add goes
\* to that method; a str that is not the name of a method is never
\* dispatched this way and is taken for the name of a computation or for the
\* key to add.
C23_Dispatch ==
  call.made =>
    /\ DispatchedToOthers
    /\ (call.data.py = "key" /\ ~(IsStrData(call.data) /\ call.data.name \in MethodNames)) =>
         AsComputationOrKey

\* What of C23 the code does: the same, with "a name in dir(Computer)" for
\* "a name of a method".
C23_DispatchOnDir ==
  call.made =>
    /\ DispatchedToOthers
    /\ (call.data.py = "key"
          /\ ~(IsStrData(call.data) /\ call.data.name \in DirComputer \ {"add"})) =>
         AsComputationOrKey

\* With "q:x-y" in the graph, add("aggregate", "q:x-y", "t", {...}) called
\* the method: it added the aggregate of "q:x-y" at "q:x-y:t", and did not
\* store a task (aggregate, "q:x-y", "t", {...}) at "q:x-y".
C23_Witness ==
  /\ call.made
  /\ call.data = KeyRef(Bare("aggregate"))
  /\ call.args = <<KeyRef(qxy), KeyRef(Bare("t")), Groups>>
  /\ call.r.exc = NoExc
  /\ call.r.keys = <<Key("q", <<"x", "y">>, "t")>>
  /\ qxy \in DOMAIN call.before.tasks
  /\ call.r.graph.tasks[qxy] = call.before.tasks[qxy]

(* ------------------------------------------------------------------ *)
(* Properties of the binary operations of Quantity                      *)
(* ------------------------------------------------------------------ *)

\* The Quantities "a" and "b" as they were before the last operation.
BeforeA == IF arith.x = "a" THEN arith.obj ELSE arith.other
BeforeB == IF arith.x = "b" THEN arith.obj ELSE arith.other

\* Took part in the last operation
TookPart(x) == arith.x = x \/ arith.kind = "quantity"

\* C24: a binary operation does not mutate its operands: values, dims,
\* coords, name and attrs, the set of attr keys and the "_unit" entry
\* included, are after the operation what they were before.
C24_OperandsUnchanged ==
  arith.made => (qa = BeforeA /\ qb = BeforeB)

\* What of C24 the code keeps: all but the keys of attrs are as before, and
\* the units read from the operand are the same.
C24_UnchangedButUnitDefault ==
  arith.made =>
    /\ [qa EXCEPT !.attrs = NoAttrs] = [BeforeA EXCEPT !.attrs = NoAttrs]
    /\ [qb EXCEPT !.attrs = NoAttrs] = [BeforeB EXCEPT !.attrs = NoAttrs]
    /\ qa.attrs.rest = BeforeA.attrs.rest /\ units(qa) = units(BeforeA)
    /\ qb.attrs.rest = BeforeB.attrs.rest /\ units(qb) = units(BeforeB)
\* The last operation had a plain number for its other operand.
WithNumber == arith.made /\ arith.kind = "number"

\* The result has units, those of the Quantity operand.
CarriesUnitsOfObj ==
  arith.done /\ arith.result.attrs.has_unit /\ arith.result.attrs.unit = units(arith.obj)

\* C25 as stated: with a plain number for the other operand, every binary
\* operation, reflected or not, succeeds and its result has the units of the
\* Quantity operand.
C25_ScalarOperand ==
  WithNumber => CarriesUnitsOfObj

\* C25, amended: the number is wrapped as a dimensionless Quantity; mul,
\* truediv and pow, reflected or not, succeed and the result has the units of
\* the Quantity operand; add and sub do so when the Quantity operand is
\* dimensionless, and otherwise fail with the DimensionalityError of pint.
C25_ScalarOperandConvertible ==
  WithNumber =>
    IF OpName(arith.name) \in {"add", "sub"}
         /\ Dimensionality(units(arith.obj)) # Dimensionality(dimensionless)
      THEN ~arith.done /\ arith.exc = Exc("DimensionalityError", <<>>)
      ELSE CarriesUnitsOfObj

\* 2 / b with b = 2 kg gave 1 kg
C25_Witness ==
  /\ WithNumber
  /\ arith.name = "rtruediv"
  /\ arith.x = "b"
  /\ arith.obj.values = Rat(2, 1)
  /\ arith.obj.attrs = Attrs(TRUE, Unit("kg"), {})
  /\ arith.done
  /\ arith.result.values = One
  /\ arith.result.attrs.unit = Unit("kg")
\* What one unit is in kg (tonne) or km: 1 tonne = 1000 kg.
InBase(u) == IF u = Unit("tonne") THEN 1000 ELSE 1

\* obj + other or obj - other on two Quantities
AddOrSub == arith.made /\ arith.kind = "quantity" /\ arith.name \in {"add", "sub"}

\* The magnitude of other in the units of obj
OtherInUnitsOfObj ==
  RDiv(RMul(arith.other.values, Rat(InBase(units(arith.other)), 1)),
       Rat(InBase(units(arith.obj)), 1))

\* C26: a + b and a - b on Quantities with convertible units have the
\* units of a, the magnitudes of b being scaled by the factor from the units
\* of b to those of a (1 tonne + 1 kg = 1.001 tonne); with units that are not
\* convertible the operation fails and yields no result.
C26_AddSubUnits ==
  AddOrSub =>
    IF Dimensionality(units(arith.obj)) = Dimensionality(units(arith.other))
      THEN /\ arith.done
           /\ arith.result.attrs.has_unit
           /\ arith.result.attrs.unit = units(arith.obj)
           /\ arith.result.values =
                IF arith.name = "add" THEN RAdd(arith.obj.values, OtherInUnitsOfObj)
                ELSE RSub(arith.obj.values, OtherInUnitsOfObj)
           /\ (arith.name = "add" /\ units(arith.obj) = Unit("tonne")
                 /\ arith.obj.values = One
                 /\ units(arith.other) = Unit("kg") /\ arith.other.values = One) =>
                arith.result.values = Rat(1001, 1000)
      ELSE /\ ~arith.done
           /\ arith.exc = Exc("DimensionalityError", <<>>)

\* 1 kg + 1 tonne = 1001 kg
C26_Witness ==
  /\ AddOrSub
  /\ arith.name = "add"
  /\ arith.obj.values = One /\ units(arith.obj) = Unit("kg")
  /\ arith.other.values = One /\ units(arith.other) = Unit("tonne")
  /\ arith.done
  /\ arith.result.values = Rat(1001, 1)
  /\ arith.result.attrs.unit = Unit("kg")
\* The name and the non-unit attrs of the left operand of the last operation:
\* of obj, or of other for a reflected operation; a number has neither.
LeftName ==
  IF ~IsSwap(arith.name) THEN arith.obj.name
  ELSE IF arith.kind = "quantity" THEN arith.other.name ELSE ""
LeftRest ==
  IF ~IsSwap(arith.name) THEN arith.obj.attrs.rest
  ELSE IF arith.kind = "quantity" THEN arith.other.attrs.rest ELSE {}

Attempted(v) == last.id # 0 /\ values[last.id] = v

\* C28: add_queue pushes its failure action on _queue_fail before the
\* attempt of every item and pops it afterwards, whatever the attempt raised:
\* the stack is never empty and, after every attempt and when add_queue has
\* returned or raised, holds what it held before the call, also when an item
\* is itself a queue. An add_queue nested in an item with fail=None takes
\* the failure action of the enclosing call: its item that cannot be added
\* makes it raise if and only if the enclosing action is to raise.
C28_QueueFailStack ==
  /\ queue_fail = <<ERROR>>
  /\ Attempted(vNested) =>
       /\ (last.exc = NoExc) = ~WillRaise(fail)
       /\ last.exc = NoExc => kC \in DOMAIN graph.tasks
  /\ Attempted(vNestedDebug) => last.exc = NoExc

\* add_queue(..., fail="debug") with the queue [("full_key", "missing"),
\* ("C", 1.0)] for an item: that queue was added without raising, "C" is
\* there, and the stack is as before.
C28_Witness ==
  /\ pc = "returned"
  /\ fail = DEBUG
  /\ Attempted(vNested)
  /\ last.exc = NoExc
  /\ kC \in DOMAIN graph.tasks
  /\ queue_fail = <<ERROR>>

(* ------------------------------------------------------------------ *)
(* Termination of add_queue                                             *)
(* ------------------------------------------------------------------ *)

\* The attempts made so far, over all items
RECURSIVE SumSeq(_)
SumSeq(t) == IF t = <<>> THEN 0 ELSE Head(t) + SumSeq(Tail(t))
Attempts == SumSeq(tries)
Max(a, b) == IF a >= b THEN a ELSE b

\* C29: add_queue ends for every queue and every max_tries: it returns or
\* raises, after at most len(queue) * max(1, max_tries) attempts.
C29_AddQueueTerminates ==
  /\ [](Attempts <= Len(values) * Max(1, max_tries))
  /\ (pc = "queue") ~> (pc \in {"returned", "raised"})

\* [("full_key", "A"), strict ("B", op, "A")] with max_tries 2 and fail
\* "debug": neither can be added, and add_queue returned after 4 attempts.
C29_Witness ==
  /\ pc = "returned"
  /\ Len(values) = 2
  /\ max_tries = 2
  /\ Attempts = 4

\* get has been called and is over: it returned or raised.
GetIsOver == lastGet.made /\ pc # "get"

ConfigNow == graph.tasks[ConfigKey]
ConfigBefore == lastGet.before.tasks[ConfigKey]

\* get was called without a key while default_key named a key that was not in
\* the graph.
DefaultKeyMissing ==
  /\ lastGet.key = None
  /\ lastGet.default # None
  /\ lastGet.default \notin DOMAIN lastGet.before.tasks

\* C30: after get, however it ended (a value, a failing task, a key that
\* cannot be resolved, no default key, a default_key that is not in the
\* graph), graph["config"] is the unquoted mapping it was before the call.
C30_ConfigRestored ==
  GetIsOver => ConfigNow = ConfigBefore /\ quote_depth(ConfigNow) = 0

\* C30, for a "config" that is not quoted before the call, except when
\* default_key names a key that is not in the graph.
C30_ConfigRestoredUnlessCullRaises ==
  (GetIsOver /\ ~DefaultKeyMissing /\ quote_depth(ConfigBefore) = 0)
     => ConfigNow = ConfigBefore

\* get() raised KeyError from cull and left "config" quoted; a later get()
\* that returns leaves it quoted as well.
C30_Quoted ==
  /\ pc = "got"
  /\ lastGet.key = kA
  /\ quote_depth(ConfigNow) = 1
  /\ ConfigNow = ConfigBefore

\* get() without a key took default_key "B", the task of "B" raised, and
\* "config" is the dict it was.
C30_Witness ==
  /\ pc = "failed"
  /\ Len(gets) = 2
  /\ gets[1].exc = NoExc
  /\ gets[2].exc # NoExc
  /\ lastGet.key = None
  /\ lastGet.default = kB
  /\ ConfigNow = ConfigDict

====
